---- MODULE Spec2Model ----
(***************************************************************************)
(* ProView background task engine: the three QRunnable workers             *)
(* (SearchWorker, FileOperationWorker, DuplicateFinderWorker), the Qt      *)
(* main-thread event queue that carries their signals, and the scheduling  *)
(* code of FileViewer and DuplicateFilesDialog that starts, supersedes and *)
(* cancels them.                                                           *)
(*                                                                         *)
(* Paths are POSIX path strings, modelled as sequences of one-character    *)
(* strings, so that normpath, startswith, basename, join and splitext are  *)
(* computed on characters as posixpath computes them.                      *)
(***************************************************************************)
EXTENDS Integers, Sequences, FiniteSets, TLC

(***************************************************************************)
(* Bounds of the model.                                                    *)
(***************************************************************************)
\* Worker instances ever created in one behaviour.
MaxInst == 3
\* Symbolic links followed while resolving one path (the kernel's ELOOP limit).
MaxLinkDepth == 2

(***************************************************************************)
(* Strings.                                                                *)
(***************************************************************************)
Sep == "/"

\* str.lower() on one character of the model's alphabet.
LowerChar(c) ==
    CASE c = "A" -> "a"
      [] c = "B" -> "b"
      [] OTHER -> c

\* str.lower()
Lower(s) == [k \in 1..Len(s) |-> LowerChar(s[k])]

\* s.startswith(prefix)
StartsWith(s, prefix) ==
    /\ Len(prefix) <= Len(s)
    /\ SubSeq(s, 1, Len(prefix)) = prefix

\* `sub in s` for strings
Contains(s, sub) ==
    \E k \in 0..(Len(s) - Len(sub)) : SubSeq(s, k + 1, k + Len(sub)) = sub

\* s.rfind(c): the last 1-based position of character c, 0 when absent.
RFind(s, c) ==
    LET hits == {k \in 1..Len(s) : s[k] = c}
    IN  IF hits = {} THEN 0 ELSE CHOOSE k \in hits : \A j \in hits : j <= k

\* str(n) for n >= 0: the decimal digits of n.
DigitChar(d) ==
    CASE d = 0 -> "0" [] d = 1 -> "1" [] d = 2 -> "2" [] d = 3 -> "3"
      [] d = 4 -> "4" [] d = 5 -> "5" [] d = 6 -> "6" [] d = 7 -> "7"
      [] d = 8 -> "8" [] OTHER -> "9"

RECURSIVE Str(_)
Str(n) == IF n < 10 THEN <<DigitChar(n)>>
          ELSE Str(n \div 10) \o <<DigitChar(n % 10)>>

(***************************************************************************)
(* posixpath.                                                              *)
(***************************************************************************)
\* s.split("/"): the components between separators, empty ones included.
RECURSIVE SplitSep(_)
SplitSep(s) ==
    LET hits == {k \in 1..Len(s) : s[k] = Sep}
    IN  IF hits = {} THEN <<s>>
        ELSE LET k == CHOOSE x \in hits : \A y \in hits : x <= y
             IN  <<SubSeq(s, 1, k - 1)>> \o SplitSep(SubSeq(s, k + 1, Len(s)))

\* "/".join(comps)
RECURSIVE JoinSep(_)
JoinSep(comps) ==
    IF comps = <<>> THEN <<>>
    ELSE IF Len(comps) = 1 THEN comps[1]
    ELSE comps[1] \o <<Sep>> \o JoinSep(Tail(comps))

\* The component stack of posixpath.normpath after reading comps.
RECURSIVE NormComps(_, _, _)
NormComps(comps, new, rooted) ==
    IF comps = <<>> THEN new
    ELSE LET c == Head(comps)
             rest == Tail(comps)
         IN  IF c = <<>> \/ c = <<".">> THEN NormComps(rest, new, rooted)
             ELSE IF \/ c # <<".", ".">>
                     \/ (~rooted /\ new = <<>>)
                     \/ (new # <<>> /\ new[Len(new)] = <<".", ".">>)
                  THEN NormComps(rest, Append(new, c), rooted)
             ELSE IF new # <<>>
                  THEN NormComps(rest, SubSeq(new, 1, Len(new) - 1), rooted)
             ELSE NormComps(rest, new, rooted)

\* posixpath.normpath
Normpath(path) ==
    IF path = <<>> THEN <<".">>
    ELSE LET slashes ==
                 IF ~StartsWith(path, <<Sep>>) THEN 0
                 ELSE IF StartsWith(path, <<Sep, Sep>>)
                         /\ ~StartsWith(path, <<Sep, Sep, Sep>>) THEN 2
                 ELSE 1
             body == JoinSep(NormComps(SplitSep(path), <<>>, slashes > 0))
             out == [k \in 1..slashes |-> Sep] \o body
         IN  IF out = <<>> THEN <<".">> ELSE out

\* posixpath.join(a, b)
Join(a, b) ==
    IF StartsWith(b, <<Sep>>) THEN b
    ELSE IF a = <<>> \/ a[Len(a)] = Sep THEN a \o b
    ELSE a \o <<Sep>> \o b

\* posixpath.basename
Basename(p) == SubSeq(p, RFind(p, Sep) + 1, Len(p))

\* posixpath.dirname of a normalized absolute path.
Dirname(p) ==
    LET k == RFind(p, Sep)
    IN  IF k <= 1 THEN <<Sep>> ELSE SubSeq(p, 1, k - 1)

\* The working directory of the process, used by abspath on a relative path.
Cwd == <<Sep>>

\* posixpath.abspath
Abspath(p) == IF StartsWith(p, <<Sep>>) THEN Normpath(p) ELSE Normpath(Join(Cwd, p))

\* posixpath.splitext: <<root, ext>>; leading dots of the name are no extension.
Splitext(p) ==
    LET sepIndex == RFind(p, Sep)
        dotIndex == RFind(p, ".")
    IN  IF dotIndex > sepIndex
           /\ \E k \in (sepIndex + 1)..(dotIndex - 1) : p[k] # "."
        THEN <<SubSeq(p, 1, dotIndex - 1), SubSeq(p, dotIndex, Len(p))>>
        ELSE <<p, <<>>>>

(***************************************************************************)
(* The filesystem: a function from the canonical absolute path of every    *)
(* existing entry to its node.  The root "/" always exists.                *)
(*   type   "file", "dir" or "link"                                        *)
(*   size   st_size of a file                                              *)
(*   data   the content of a file (equal data, equal digest)               *)
(*   mtime  st_mtime                                                       *)
(*   ok     a file can be opened for reading, a directory can be listed    *)
(*   target the path a symbolic link points to                             *)
(*   ord    the position of the entry in its directory's listing           *)
(***************************************************************************)
Root == <<Sep>>
NoPath == <<>>

FileNode(size, data, mtime, ok, ord) ==
    [type |-> "file", size |-> size, data |-> data, mtime |-> mtime,
     ok |-> ok, target |-> NoPath, ord |-> ord]

DirNode(ok, ord) ==
    [type |-> "dir", size |-> 0, data |-> 0, mtime |-> 0,
     ok |-> ok, target |-> NoPath, ord |-> ord]

LinkNode(target, ord) ==
    [type |-> "link", size |-> 0, data |-> 0, mtime |-> 0,
     ok |-> TRUE, target |-> target, ord |-> ord]

\* Path resolution as the kernel does it: component by component from cur,
\* following symbolic links (the last one only when followLast), giving the
\* canonical path of the entry reached or NoPath.
RECURSIVE ResolveFrom(_, _, _, _, _)
ResolveFrom(f, cur, comps, followLast, fuel) ==
    IF comps = <<>> THEN cur
    ELSE LET c == Head(comps)
             rest == Tail(comps)
             next == Join(cur, c)
         IN  IF c = <<>> \/ c = <<".">>
             THEN ResolveFrom(f, cur, rest, followLast, fuel)
             ELSE IF f[cur].type # "dir" THEN NoPath
             ELSE IF c = <<".", ".">>
             THEN ResolveFrom(f, Dirname(cur), rest, followLast, fuel)
             ELSE IF next \notin DOMAIN f THEN NoPath
             ELSE IF f[next].type = "link" /\ (rest # <<>> \/ followLast)
             THEN IF fuel = 0 THEN NoPath
                  ELSE LET tgt == f[next].target
                           from == IF StartsWith(tgt, <<Sep>>) THEN Root ELSE cur
                           t == ResolveFrom(f, from, SplitSep(tgt), TRUE, fuel - 1)
                       IN  IF t = NoPath THEN NoPath
                           ELSE ResolveFrom(f, t, rest, followLast, fuel)
             ELSE ResolveFrom(f, next, rest, followLast, fuel)

\* stat(): the canonical path p names, symbolic links followed.
Resolve(f, p) ==
    IF p = <<>> THEN NoPath
    ELSE ResolveFrom(f, IF StartsWith(p, <<Sep>>) THEN Root ELSE Cwd,
                     SplitSep(p), TRUE, MaxLinkDepth)

\* lstat(): as Resolve, the last component not followed.
LResolve(f, p) ==
    IF p = <<>> THEN NoPath
    ELSE ResolveFrom(f, IF StartsWith(p, <<Sep>>) THEN Root ELSE Cwd,
                     SplitSep(p), FALSE, MaxLinkDepth)

\* os.path.exists
Exists(f, p) == Resolve(f, p) # NoPath

\* os.path.isdir, on the entry r the path resolves to.
IsDirAt(f, r) == r # NoPath /\ f[r].type = "dir"
IsDir(f, p) == IsDirAt(f, Resolve(f, p))

\* os.path.islink, on the entry r the path names (lstat).
IsLinkAt(f, r) == r # NoPath /\ f[r].type = "link"
IsLink(f, p) == IsLinkAt(f, LResolve(f, p))

\* The entries directly inside directory d (a canonical path).
Children(f, d) == {q \in DOMAIN f : q # d /\ Dirname(q) = d}

\* All entries below directory d (a canonical path), d excluded.
Below(f, d) ==
    {q \in DOMAIN f : q # d /\ StartsWith(q, IF d = Root THEN d ELSE d \o <<Sep>>)}

\* The elements of a finite set of paths as a sequence, in listing order.
RECURSIVE InOrder(_, _)
InOrder(f, S) ==
    IF S = {} THEN <<>>
    ELSE LET q == CHOOSE x \in S : \A y \in S : f[x].ord <= f[y].ord
         IN  <<q>> \o InOrder(f, S \ {q})

\* os.listdir / os.scandir can read directory p.
CanListAt(f, r) == IsDirAt(f, r) /\ f[r].ok
CanList(f, p) == CanListAt(f, Resolve(f, p))

\* The next free listing position.
NextOrd(f) == 1 + (CHOOSE m \in {f[q].ord : q \in DOMAIN f} :
                      \A q \in DOMAIN f : f[q].ord <= m)

\* f with entry p set to node n.
Put(f, p, n) == [q \in (DOMAIN f) \cup {p} |-> IF q = p THEN n ELSE f[q]]

\* f without the entries in S.
Without(f, S) == [q \in (DOMAIN f) \ S |-> f[q]]

\* The canonical path at which a new entry named by path p is created:
\* its parent directory (par, the entry dirname(n) resolves to) must exist.
CreateAt(f, n, par) ==
    IF par = NoPath \/ f[par].type # "dir" \/ n = Root THEN NoPath
    ELSE Join(par, Basename(n))

CreateNorm(f, n) == CreateAt(f, n, Resolve(f, Dirname(n)))

CreatePath(f, p) == CreateNorm(f, Normpath(p))

\* The result of a filesystem call: it returned (ok) or raised, leaving fs.
Returned(f) == [ok |-> TRUE, fs |-> f]
Raised(f) == [ok |-> FALSE, fs |-> f]

\* A copy of the file at entry r, listed at position ord.
CopyOf(f, r, ok, ord) == FileNode(f[r].size, f[r].data, f[r].mtime, ok, ord)

\* The path open(p, "wb") creates when p does not resolve: p itself, or,
\* p naming a dangling symbolic link, what the chain of links names.
RECURSIVE LinkEnd(_, _, _)
LinkEnd(f, p, fuel) ==
    IF ~IsLink(f, p) THEN p
    ELSE IF fuel = 0 THEN NoPath
    ELSE LinkEnd(f, Join(Dirname(LResolve(f, p)), f[LResolve(f, p)].target), fuel - 1)

\* shutil.copy2(src, dst): the referent of src is read, dst (or, when dst is
\* a directory, dst/basename(src)) is created or overwritten, data and
\* metadata copied.  A dangling symbolic link at the destination is
\* written through: the file its chain names is created.
\*   rs  the entry src resolves to      old  the entry the target resolves to
\*   new the path a new target gets
Copy2At(f, rs, old, new) ==
    IF rs = NoPath \/ f[rs].type # "file" \/ ~f[rs].ok THEN Raised(f)
    ELSE IF old # NoPath
    THEN IF f[old].type # "file" \/ old = rs THEN Raised(f)
         ELSE Returned([f EXCEPT ![old] = CopyOf(f, rs, @.ok, @.ord)])
    ELSE IF new = NoPath THEN Raised(f)
    ELSE Returned(Put(f, new, CopyOf(f, rs, TRUE, NextOrd(f))))

Copy2To(f, rs, to) ==
    Copy2At(f, rs, Resolve(f, to), CreatePath(f, LinkEnd(f, to, MaxLinkDepth)))

Copy2(f, src, dst) ==
    Copy2To(f, Resolve(f, src),
            IF IsDir(f, dst) THEN Join(dst, Basename(src)) ELSE dst)

\* The path of entry q of the tree at from, in the copy of the tree at to.
Rebase(q, from, to) ==
    IF from = Root THEN Join(to, SubSeq(q, 2, Len(q)))
    ELSE to \o SubSeq(q, Len(from) + 1, Len(q))

\* The entry r a symbolic link resolves to is a readable file.
ReadableFileAt(f, r) == r # NoPath /\ f[r].type = "file" /\ f[r].ok

\* An entry q below rs that copytree cannot copy: an unreadable file, an
\* unlistable directory, a symbolic link that does not lead to a readable
\* file (links are recreated as links when symlinks is set), or anything
\* below such an entry.
Uncopyable(f, rs, q, symlinks) ==
    \E a \in Below(f, rs) \cup {rs} :
        /\ a = q \/ StartsWith(q, a \o <<Sep>>)
        /\ \/ f[a].type = "file" /\ ~f[a].ok /\ a = q
           \/ f[a].type = "dir" /\ ~f[a].ok /\ a # q
           \/ f[a].type = "link" /\ ~symlinks
                /\ (a # q \/ ~ReadableFileAt(f, Resolve(f, a)))

\* The node copytree creates for entry q: a directory, a link (when
\* symlinks is set), or a copy of the file at r, the entry q resolves to.
CopiedNode(f, q, r, ord, symlinks) ==
    IF f[q].type = "dir" THEN DirNode(TRUE, ord)
    ELSE IF f[q].type = "link" /\ symlinks THEN LinkNode(f[q].target, ord)
    ELSE CopyOf(f, r, TRUE, ord)

\* The entries all[k], k in copied, of the tree at rs copied below new.
CopyEntries(f, rs, new, all, copied, base, symlinks) ==
    [ok |-> copied = 1..Len(all),
     fs |-> [x \in (DOMAIN f) \cup {new}
                   \cup {Rebase(all[k], rs, new) : k \in copied} |->
                IF x \in DOMAIN f THEN f[x]
                ELSE IF x = new THEN DirNode(TRUE, base)
                ELSE \* the entry copied to x
                     (LET k == CHOOSE j \in copied : Rebase(all[j], rs, new) = x
                      IN  CopiedNode(f, all[k], Resolve(f, all[k]), base + k,
                                     symlinks))]]

CopyAll(f, rs, new, all, symlinks) ==
    CopyEntries(f, rs, new, all,
                {k \in 1..Len(all) : ~Uncopyable(f, rs, all[k], symlinks)},
                NextOrd(f), symlinks)

\* shutil.copytree(src, dst, symlinks, dirs_exist_ok=False): raises when
\* dst exists or src cannot be listed; otherwise copies every entry it can
\* and raises at the end when some entry could not be copied.  Symbolic
\* links are copied as their referent file unless symlinks is set.  The
\* entries of a directory are listed before its copy is created, so a copy
\* made directly inside the source holds what the source held before; a
\* copy made deeper inside the source descends into itself until the
\* recursion limit and raises, and of what that leaves behind only the
\* directory dst is kept here.
\*   rs the entry src resolves to, new the path dst is created at,
\*   ldst the entry dst names (lstat)
CopyTreeAt(f, rs, new, ldst, symlinks) ==
    IF rs = NoPath \/ f[rs].type # "dir" \/ ~f[rs].ok THEN Raised(f)
    ELSE IF new = NoPath \/ ldst # NoPath THEN Raised(f)
    ELSE IF StartsWith(new, IF rs = Root THEN rs ELSE rs \o <<Sep>>)
            /\ Dirname(new) # rs
    THEN Raised(Put(f, new, DirNode(TRUE, NextOrd(f))))
    ELSE CopyAll(f, rs, new, InOrder(f, Below(f, rs)), symlinks)

CopyTree(f, src, dst) ==
    CopyTreeAt(f, Resolve(f, src), CreatePath(f, dst), LResolve(f, dst), FALSE)

\* The entries in moved (ls and what is below it) re-keyed from ls to new.
Rekey(f, ls, new, moved) ==
    [x \in ((DOMAIN f) \ (moved \cup {new}))
           \cup {Rebase(q, ls, new) : q \in moved} |->
        IF x \in DOMAIN f /\ x \notin moved /\ x # new THEN f[x]
        ELSE f[CHOOSE q \in moved : Rebase(q, ls, new) = x]]

\* os.rename(src, dst) on one volume: the entry src (a symbolic link itself,
\* not its referent) and everything below it is re-keyed to dst.
\*   ls the entry src names, old the entry dst names (lstat),
\*   new the path the entry gets
RenameAt(f, ls, old, new) ==
    IF ls = NoPath \/ new = NoPath \/ ls = Root THEN Raised(f)
    ELSE IF new = ls THEN Returned(f)
    ELSE IF StartsWith(new, ls \o <<Sep>>) THEN Raised(f)
    ELSE IF old # NoPath /\ (f[old].type = "dir" \/ f[ls].type = "dir")
    THEN Raised(f)
    ELSE Returned(Rekey(f, ls, new,
             {ls} \cup (IF f[ls].type = "dir" THEN Below(f, ls) ELSE {})))

RenameOver(f, ls, old, dst) ==
    RenameAt(f, ls, old, IF old # NoPath THEN old ELSE CreatePath(f, dst))

Rename(f, src, dst) == RenameOver(f, LResolve(f, src), LResolve(f, dst), dst)

\* shutil._destinsrc: dst is src or below it, judged on the absolute paths
\* as they are written.
DestInSrc(src, dst) ==
    StartsWith(Join(Abspath(dst), <<>>), Join(Abspath(src), <<>>))

\* The end of shutil.move's copy-and-delete, c being the result of its
\* copytree of the directory ls: rmtree(src) when the copy returned.
MoveCopied(ls, c) ==
    IF c.ok THEN Returned(Without(c.fs, {ls} \cup Below(c.fs, ls))) ELSE c

\* shutil.move after os.rename (result r): a rename that fails falls back
\* to copy and delete, which raises in every case a same-volume rename
\* fails but one: the directory ls moved to a place new inside itself that
\* the paths as written do not show to be inside it.
RenameOrCopy(f, r, src, real, ls, new) ==
    IF r.ok \/ ~IsDirAt(f, ls) \/ new = NoPath \/ ~StartsWith(new, ls \o <<Sep>>)
    THEN r
    ELSE IF DestInSrc(src, real) THEN Raised(f)
    ELSE MoveCopied(ls, CopyTreeAt(f, ls, new, LResolve(f, real), TRUE))

\* shutil.move(src, dst) with source and destination on one volume: into
\* dst when dst is a directory (raising when the name is taken there),
\* else os.rename and its fallback.
MoveTo(f, src, into, real) ==
    IF into /\ Exists(f, real) THEN Raised(f)
    ELSE RenameOrCopy(f, Rename(f, src, real), src, real, LResolve(f, src),
                      CreatePath(f, real))

Move(f, src, dst) ==
    MoveTo(f, src, IsDir(f, dst),
           IF IsDir(f, dst) THEN Join(dst, Basename(src)) ELSE dst)

(***************************************************************************)
(* State.                                                                  *)
(***************************************************************************)
VARIABLES
    fs,                     \* the filesystem
    cfg,                    \* what the user may ask for in this behaviour
    nInst,                  \* worker instances created so far: 1..nInst
    kind,                   \* per instance: "search", "fileop", "dup"
    args,                   \* per instance: the constructor's arguments
    cancelled,              \* per instance: _is_cancelled
    recancel,               \* per instance: cancel() was called with the flag set (history)
    pc,                     \* per instance: position of run()
    loc,                    \* per instance: the local variables of run()
    emitted,                \* per instance: signals emitted so far (history)
    queue,                  \* queued signal deliveries of the main thread
    active_panel,           \* FileViewer.active_panel: a drive path or NoPath
    current_search_worker,  \* FileViewer.current_search_worker, 0 is None
    current_file_worker,    \* FileViewer.current_file_worker, 0 is None
    progress,               \* FileViewer.progress.value()
    selection,              \* per panel: the paths selected in its tree
    btn_cancel,             \* FileViewer.btn_cancel.isEnabled()
    reset_timers,           \* pending QTimer.singleShot(2000, setValue(0))
    dlg                     \* the DuplicateFilesDialog created last

vars == <<fs, cfg, nInst, kind, args, cancelled, recancel, pc, loc, emitted,
          queue, active_panel, current_search_worker, current_file_worker,
          progress, selection, btn_cancel, reset_timers, dlg>>

workerVars == <<kind, args, cancelled, recancel, pc, loc, emitted>>
viewerVars == <<active_panel, current_search_worker, current_file_worker,
                progress, selection, btn_cancel, reset_timers>>

Insts == 1..MaxInst
Created == 1..nInst

\* run() has begun and has not returned.
Running(i) == pc[i] \notin {"none", "queued", "done"}
\* The instance is submitted to the pool and run() has not returned.
Live(i) == pc[i] \notin {"none", "done"}

NoArgs == [none |-> TRUE]
NoLoc == [none |-> TRUE]

Min(a, b) == IF a <= b THEN a ELSE b

(***************************************************************************)
(* Signals.  A worker's signals object lives in the main thread and the    *)
(* worker emits from a pool thread, so every connection is queued: an      *)
(* emission appends one delivery to the main thread's event queue.         *)
(***************************************************************************)
Ev(sig, val) == [sig |-> sig, val |-> val]

\* The deliveries queued for the signals evs of instance i; at records the
\* number of instances created when the signal was emitted (history).
Posted(i, evs) ==
    [k \in 1..Len(evs) |->
        [inst |-> i, sig |-> evs[k].sig, val |-> evs[k].val, at |-> nInst]]

Emit(i, evs) ==
    /\ emitted' = [emitted EXCEPT ![i] = @ \o evs]
    /\ queue' = queue \o Posted(i, evs)

\* A faulty variant of PercentOf: the ratio inverted.
PercentOfInverted(k, total) == (100 * total) \div k

\* int((k / total) * 100) in IEEE double arithmetic: the floor of 100k/total,
\* except that 0.29*100, 0.57*100 and 0.58*100 round below the integer.
PercentOf(k, total) ==
    LET q == (100 * k) \div total
    IN  IF 100 * k = 29 * total \/ 100 * k = 57 * total \/ 100 * k = 58 * total
        THEN q - 1 ELSE q

\* A faulty variant of cancel: the flag toggled instead of set.
cancel_toggle(flags, i) == [flags EXCEPT ![i] = ~@]

\* cancel(): self._is_cancelled = True
cancel(flags, i) == [flags EXCEPT ![i] = TRUE]

\* The viewer or the dialog calls cancel() of instance i.
CallCancel(i) ==
    /\ cancelled' = cancel(cancelled, i)
    /\ recancel' = [recancel EXCEPT ![i] = @ \/ cancelled[i]]

\* QRunnable.__init__ of a new instance and QThreadPool.start(worker).
Submit(i, k, a) ==
    /\ nInst' = i
    /\ kind' = [kind EXCEPT ![i] = k]
    /\ args' = [args EXCEPT ![i] = a]
    /\ pc' = [pc EXCEPT ![i] = "queued"]

(***************************************************************************)
(* FileOperationWorker.run                                                 *)
(***************************************************************************)
ErrVanished == "Source no longer exists"
ErrSelf(operation) == <<"Cannot", operation, "to itself or subdirectory">>
ErrRaised == "exception"

\* The self-containment guard on the normalized source and destination.
SelfContained(source_path, destination_dir) ==
    LET norm_source == Normpath(source_path)
        norm_dest == Normpath(destination_dir)
    IN  norm_source = norm_dest \/ StartsWith(norm_dest, norm_source \o <<Sep>>)

\* A faulty variant of CopyName: the suffix appended after the extension.
CopyNameAfterExt(filename, counter) ==
    filename \o <<"_", "c", "o", "p", "y", "_">> \o Str(counter)

\* The candidate name tried with the given counter.
CopyName(filename, counter) ==
    LET name == Splitext(filename)[1]
        ext == Splitext(filename)[2]
    IN  IF ext # <<>> THEN name \o <<"_", "c", "o", "p", "y", "_">> \o Str(counter) \o ext
        ELSE filename \o <<"_", "c", "o", "p", "y", "_">> \o Str(counter)

\* The while loop of the conflict renaming, entered with destination_path.
RECURSIVE ResolveConflict(_, _, _, _, _)
ResolveConflict(f, destination_dir, filename, destination_path, counter) ==
    IF ~Exists(f, destination_path) THEN destination_path
    ELSE ResolveConflict(f, destination_dir, filename,
                         Join(destination_dir, CopyName(filename, counter)),
                         counter + 1)

\* The destination path chosen for a source item.
DestinationPath(f, source_path, destination_dir) ==
    LET filename == Basename(source_path)
    IN  ResolveConflict(f, destination_dir, filename,
                        Join(destination_dir, filename), 1)

\* The shutil call made for one item.
Transfer(f, operation, source_path, destination_path) ==
    IF operation = "copy"
    THEN IF IsDir(f, source_path) THEN CopyTree(f, source_path, destination_path)
         ELSE Copy2(f, source_path, destination_path)
    ELSE Move(f, source_path, destination_path)

\* The filesystems a raising shutil call can leave behind, r being the
\* result of the call when nothing fails below it: the call raised before
\* changing anything, or (an I/O error late in the call) after the
\* destination was written; a cross-volume move that fails after its copy
\* leaves the copy and the source.
AfterRaise(f, r, operation, source_path, destination_path) ==
    IF ~r.ok THEN {r.fs}
    ELSE IF operation = "copy" THEN {f, r.fs}
    ELSE {f, Transfer(f, "copy", source_path, destination_path).fs}

\* A faulty variant of DestinationValid: existence checked, not the type.
DestinationExists(f, destination_dir) == Exists(f, destination_dir)

\* The pre-check of run(): the destination must be a directory.
DestinationValid(f, destination_dir) == IsDir(f, destination_dir)

\* The progress value emitted for the item at 0-based index i.
ItemProgress(i, total_files) == PercentOf(i + 1, total_files)

\* The signals emitted on a failed pre-check.
PrecheckFailure == <<Ev("error", "Invalid destination directory.")>>

\* The signal emitted after the loop; run() then emits finished.
FileOpResult(l) == <<Ev("result", [success_count |-> l.success_count, errors |-> l.errors])>>

\* A faulty variant of LoopDone: the loop also ends after the first failure.
LoopDoneOnError(l, total_files, is_cancelled) ==
    l.i >= total_files \/ is_cancelled \/ l.errors # <<>>

\* A faulty variant of LoopDone: the cancellation flag is not looked at.
LoopDoneUncancellable(l, total_files, is_cancelled) == l.i >= total_files

\* The for loop is over: the list is exhausted, or the cancellation flag is
\* seen at the head of a pass.
LoopDone(l, total_files, is_cancelled) == l.i >= total_files \/ is_cancelled

\* The loop variables after the item at index l.i.
NextItem(l) ==
    [l EXCEPT !.processed = Append(@, l.i), !.i = @ + 1, !.destination_path = NoPath]

Succeeded(l) == NextItem([l EXCEPT !.success_count = @ + 1])

\* A faulty variant of Failed: the item is counted as a success.
FailedCounted(l, source_path, msg) == Succeeded(l)

Failed(l, source_path, msg) ==
    NextItem([l EXCEPT !.errors = Append(@, <<Basename(source_path), msg>>)])

FoBegin(i) ==
    /\ i \in Created /\ kind[i] = "fileop" /\ pc[i] = "queued"
    /\ IF ~DestinationValid(fs, args[i].destination_dir)
       THEN /\ Emit(i, PrecheckFailure)
            /\ pc' = [pc EXCEPT ![i] = "done"]
            /\ loc' = loc
       ELSE /\ loc' = [loc EXCEPT ![i] =
                   [errors |-> <<>>, success_count |-> 0, i |-> 0,
                    destination_path |-> NoPath, processed |-> <<>>]]
            /\ pc' = [pc EXCEPT ![i] = "fo_loop"]
            /\ UNCHANGED <<emitted, queue>>
    /\ UNCHANGED <<fs, cfg, nInst, kind, args, cancelled, recancel, dlg>>
    /\ UNCHANGED viewerVars

\* One pass of the for loop up to the shutil call: the cancellation check,
\* the vanished-source check, the self-containment guard and the conflict
\* renaming; or, at the end of the list or on cancellation, the result.
FoCheck(i) ==
    /\ i \in Created /\ kind[i] = "fileop" /\ pc[i] = "fo_loop"
    /\ LET l == loc[i]
           total_files == Len(args[i].source_paths)
           source_path == args[i].source_paths[l.i + 1]
           skip(msg) ==
               /\ loc' = [loc EXCEPT ![i] = Failed(l, source_path, msg)]
               /\ Emit(i, <<Ev("progress", ItemProgress(l.i, total_files))>>)
               /\ pc' = pc
       IN  IF LoopDone(l, total_files, cancelled[i])
           THEN /\ Emit(i, FileOpResult(l))
                /\ pc' = [pc EXCEPT ![i] = "fin"]
                /\ loc' = loc
           ELSE IF ~Exists(fs, source_path) THEN skip(ErrVanished)
           ELSE IF SelfContained(source_path, args[i].destination_dir) THEN skip(ErrSelf(args[i].operation))
           ELSE /\ loc' = [loc EXCEPT ![i].destination_path =
                      DestinationPath(fs, source_path, args[i].destination_dir)]
                /\ pc' = [pc EXCEPT ![i] = "fo_copy"]
                /\ UNCHANGED <<emitted, queue>>
    /\ UNCHANGED <<fs, cfg, nInst, kind, args, cancelled, recancel, dlg>>
    /\ UNCHANGED viewerVars

\* The shutil call for the item, its outcome, and the progress signal.
FoCopy(i) ==
    /\ i \in Created /\ kind[i] = "fileop" /\ pc[i] = "fo_copy"
    /\ \E source_path \in {args[i].source_paths[loc[i].i + 1]} :
       \E r \in {Transfer(fs, args[i].operation, source_path, loc[i].destination_path)} :
          \/ /\ r.ok
             /\ fs' = r.fs
             /\ loc' = [loc EXCEPT ![i] = Succeeded(@)]
          \/ /\ fs' \in AfterRaise(fs, r, args[i].operation, source_path,
                                   loc[i].destination_path)
             /\ loc' = [loc EXCEPT ![i] = Failed(@, source_path, ErrRaised)]
    /\ Emit(i, <<Ev("progress", ItemProgress(loc[i].i, Len(args[i].source_paths)))>>)
    /\ pc' = [pc EXCEPT ![i] = "fo_loop"]
    /\ UNCHANGED <<cfg, nInst, kind, args, cancelled, recancel, dlg>>
    /\ UNCHANGED viewerVars

\* The last statement of run(): self.signals.finished.emit().
Finish(i) ==
    /\ i \in Created /\ pc[i] = "fin"
    /\ Emit(i, <<Ev("finished", 0)>>)
    /\ pc' = [pc EXCEPT ![i] = "done"]
    /\ UNCHANGED <<fs, cfg, nInst, kind, args, cancelled, recancel, loc, dlg>>
    /\ UNCHANGED viewerVars

(***************************************************************************)
(* os.walk(top), top-down, followlinks=False.  The generator's state is    *)
(* the stack of directories still to list (the head is listed next) and    *)
(* the directory yielded last, whose subdirectories are pushed when the    *)
(* consumer asks for the next one.  A directory that cannot be listed is   *)
(* skipped without being yielded (onerror is None).                        *)
(***************************************************************************)
WalkStart(top) == [stack |-> <<top>>, root |-> NoPath, dirs |-> <<>>, files |-> <<>>]

\* A faulty variant of Descend: symbolic links to directories are walked
\* as well (followlinks=True).
RECURSIVE DescendLinks(_, _, _)
DescendLinks(f, root, dirs) ==
    IF dirs = <<>> THEN <<>>
    ELSE <<Join(root, Head(dirs))>> \o DescendLinks(f, root, Tail(dirs))

\* The subdirectories of the directory yielded last that the walk descends
\* into: those that are not symbolic links.
RECURSIVE Descend(_, _, _)
Descend(f, root, dirs) ==
    IF dirs = <<>> THEN <<>>
    ELSE LET new_path == Join(root, Head(dirs))
         IN  (IF IsLink(f, new_path) THEN <<>> ELSE <<new_path>>)
             \o Descend(f, root, Tail(dirs))

\* The stack with the directories that cannot be listed popped off its head.
RECURSIVE PopUnlistable(_, _)
PopUnlistable(f, stack) ==
    IF stack = <<>> THEN <<>>
    ELSE IF CanList(f, Head(stack)) THEN stack
    ELSE PopUnlistable(f, Tail(stack))

\* The names of the paths, in order.
NamesOf(paths) == [k \in 1..Len(paths) |-> Basename(paths[k])]

\* The names of the entries, in order: dirs holds the entries for which
\* is_dir() is true (a link to a directory included), files the others.
Listing(f, entries) ==
    [dirs |-> NamesOf(SelectSeq(entries, LAMBDA q : IsDir(f, q))),
     files |-> NamesOf(SelectSeq(entries, LAMBDA q : ~IsDir(f, q)))]

\* os.scandir(top), top being a directory that can be listed.
Scandir(f, top) == Listing(f, InOrder(f, Children(f, Resolve(f, top))))

\* The walk state that yields the head of the stack with its listing.
Yield(stack, listing) ==
    [stack |-> Tail(stack), root |-> Head(stack),
     dirs |-> listing.dirs, files |-> listing.files]

\* The walk state once the stack (unlistable directories popped) is known.
WalkFrom(f, stack) ==
    IF stack = <<>> THEN [stack |-> <<>>, root |-> NoPath, dirs |-> <<>>, files |-> <<>>]
    ELSE Yield(stack, Scandir(f, Head(stack)))

\* A faulty variant of WalkNext: the subdirectories of the directory
\* yielded last are not walked.
WalkFlat(f, walk) == WalkFrom(f, PopUnlistable(f, walk.stack))

\* next() of the generator: the walk state after it, root = NoPath when the
\* generator is exhausted.
WalkNext(f, walk) ==
    WalkFrom(f, PopUnlistable(f, (IF walk.root = NoPath THEN <<>>
                                  ELSE Descend(f, walk.root, walk.dirs))
                                 \o walk.stack))

(***************************************************************************)
(* SearchWorker.run                                                        *)
(***************************************************************************)
\* len(matches) > MatchLimit or processed > DirLimit ends the search.
MatchLimit == 200
DirLimit == 2000
\* Progress is emitted when processed % ProgressEvery == 0, as
\* min(processed * ProgressFactor, ProgressCap).
ProgressEvery == 5
ProgressFactor == 2
ProgressCap == 95

\* The matches of one name loop: the names containing the query whose path
\* exists, appended to matches in order.
\* A faulty variant of MatchNames: the names are compared as they are
\* spelled.
RECURSIVE MatchNamesCased(_, _, _, _, _)
MatchNamesCased(f, query, root, names, matches) ==
    IF names = <<>> THEN matches
    ELSE LET full_path == Join(root, Head(names))
             hit == Contains(Head(names), query) /\ Exists(f, full_path)
         IN  MatchNamesCased(f, query, root, Tail(names),
                             IF hit THEN Append(matches, full_path) ELSE matches)

\* A faulty variant of MatchNames: a name that contains the query is
\* recorded as it was listed, without a look at the filesystem.
RECURSIVE MatchNamesListed(_, _, _, _, _)
MatchNamesListed(f, query, root, names, matches) ==
    IF names = <<>> THEN matches
    ELSE LET full_path == Join(root, Head(names))
             hit == Contains(Lower(Head(names)), query)
         IN  MatchNamesListed(f, query, root, Tail(names),
                              IF hit THEN Append(matches, full_path) ELSE matches)

RECURSIVE MatchNames(_, _, _, _, _)
MatchNames(f, query, root, names, matches) ==
    IF names = <<>> THEN matches
    ELSE LET full_path == Join(root, Head(names))
             hit == Contains(Lower(Head(names)), query) /\ Exists(f, full_path)
         IN  MatchNames(f, query, root, Tail(names),
                        IF hit THEN Append(matches, full_path) ELSE matches)

\* A faulty variant of SearchProgress: the value is not capped.
SearchProgressUncapped(processed) == processed * ProgressFactor

\* The progress value emitted while walking.
SearchProgress(processed) == Min(processed * ProgressFactor, ProgressCap)

\* The test that ends the walk early.
SearchLimitReached(matches, processed) ==
    Len(matches) > MatchLimit \/ processed > DirLimit

\* A faulty variant of SearchResult: finished emitted before the result.
SearchResultLate(matches) ==
    <<Ev("finished", 0), Ev("result", matches), Ev("progress", 100)>>

\* The signals emitted when the search ends; run() then emits finished.
SearchResult(matches) == <<Ev("result", matches), Ev("progress", 100)>>

\* A faulty variant of SrBegin: a root that is missing, not a directory or
\* unlistable is reported as an error.
SrBeginRaises(i) ==
    /\ i \in Created /\ kind[i] = "search" /\ pc[i] = "queued"
    /\ LET normalized_root == Normpath(Abspath(args[i].root_path))
       IN  IF ~Exists(fs, normalized_root) \/ ~IsDir(fs, normalized_root)
              \/ ~CanList(fs, normalized_root)
           THEN /\ Emit(i, <<Ev("error", "Cannot access")>>)
                /\ pc' = [pc EXCEPT ![i] = "fin"]
                /\ loc' = loc
           ELSE /\ loc' = [loc EXCEPT ![i] =
                       [matches |-> <<>>, processed |-> 0, total_processed |-> 0,
                        walk |-> WalkStart(normalized_root)]]
                /\ pc' = [pc EXCEPT ![i] = "sr_next"]
                /\ UNCHANGED <<emitted, queue>>
    /\ UNCHANGED <<fs, cfg, nInst, kind, args, cancelled, recancel, dlg>>
    /\ UNCHANGED viewerVars

SrBegin(i) ==
    /\ i \in Created /\ kind[i] = "search" /\ pc[i] = "queued"
    /\ LET normalized_root == Normpath(Abspath(args[i].root_path))
       IN  IF ~Exists(fs, normalized_root) \/ ~IsDir(fs, normalized_root)
              \/ ~CanList(fs, normalized_root)
           THEN /\ Emit(i, SearchResult(<<>>))
                /\ pc' = [pc EXCEPT ![i] = "fin"]
                /\ loc' = loc
           ELSE /\ loc' = [loc EXCEPT ![i] =
                       [matches |-> <<>>, processed |-> 0, total_processed |-> 0,
                        walk |-> WalkStart(normalized_root)]]
                /\ pc' = [pc EXCEPT ![i] = "sr_next"]
                /\ UNCHANGED <<emitted, queue>>
    /\ UNCHANGED <<fs, cfg, nInst, kind, args, cancelled, recancel, dlg>>
    /\ UNCHANGED viewerVars

\* The for statement asks os.walk for the next directory.
SrNext(i) ==
    /\ i \in Created /\ kind[i] = "search" /\ pc[i] = "sr_next"
    /\ LET walk == WalkNext(fs, loc[i].walk)
       IN  IF walk.root = NoPath
           THEN /\ Emit(i, SearchResult(loc[i].matches))
                /\ pc' = [pc EXCEPT ![i] = "fin"]
                /\ loc' = loc
           ELSE /\ loc' = [loc EXCEPT ![i].walk = walk]
                /\ pc' = [pc EXCEPT ![i] = "sr_body"]
                /\ UNCHANGED <<emitted, queue>>
    /\ UNCHANGED <<fs, cfg, nInst, kind, args, cancelled, recancel, dlg>>
    /\ UNCHANGED viewerVars

\* The body of the for loop for one directory.
SrBody(i) ==
    /\ i \in Created /\ kind[i] = "search" /\ pc[i] = "sr_body"
    /\ LET l == loc[i]
           root == l.walk.root
           m1 == MatchNames(fs, args[i].query, root, l.walk.dirs, l.matches)
           matches == MatchNames(fs, args[i].query, root, l.walk.files, m1)
           processed == l.processed + 1
           tick == IF processed % ProgressEvery = 0
                   THEN <<Ev("progress", SearchProgress(processed))>> ELSE <<>>
       IN  IF cancelled[i]
           THEN /\ Emit(i, SearchResult(l.matches))
                /\ pc' = [pc EXCEPT ![i] = "fin"]
                /\ loc' = loc
           ELSE IF ~Exists(fs, root)
           THEN /\ pc' = [pc EXCEPT ![i] = "sr_next"]
                /\ UNCHANGED <<loc, emitted, queue>>
           ELSE /\ loc' = [loc EXCEPT ![i] =
                       [l EXCEPT !.matches = matches, !.processed = processed,
                                 !.total_processed =
                                     @ + Len(l.walk.dirs) + Len(l.walk.files)]]
                /\ IF SearchLimitReached(matches, processed)
                   THEN /\ Emit(i, tick \o SearchResult(matches))
                        /\ pc' = [pc EXCEPT ![i] = "fin"]
                   ELSE /\ Emit(i, tick)
                        /\ pc' = [pc EXCEPT ![i] = "sr_next"]
    /\ UNCHANGED <<fs, cfg, nInst, kind, args, cancelled, recancel, dlg>>
    /\ UNCHANGED viewerVars

(***************************************************************************)
(* DuplicateFinderWorker.run                                               *)
(***************************************************************************)
\* A status is emitted when total_files % StatusEvery == 0, a progress when
\* processed_files % HashProgressEvery == 0.
StatusEvery == 50
HashProgressEvery == 10

\* A dict in insertion order, as a sequence of [key, paths]:
\* groups[key].append(path) of a defaultdict(list).
GroupAppend(groups, key, path) ==
    IF \E k \in 1..Len(groups) : groups[k].key = key
    THEN [k \in 1..Len(groups) |->
             IF groups[k].key = key
             THEN [groups[k] EXCEPT !.paths = Append(@, path)] ELSE groups[k]]
    ELSE Append(groups, [key |-> key, paths |-> <<path>>])

\* A faulty variant of ScanFiles: neither symbolic links nor files below
\* the minimum size are skipped.
RECURSIVE ScanFilesUnfiltered(_, _, _, _, _)
ScanFilesUnfiltered(f, min_file_size, root, files, acc) ==
    IF files = <<>> THEN acc
    ELSE LET filepath == Join(root, Head(files))
             keep == Exists(f, filepath)
             total == acc.total_files + 1
         IN  ScanFilesUnfiltered(f, min_file_size, root, Tail(files),
                 IF ~keep THEN acc
                 ELSE [size_groups |->
                           GroupAppend(acc.size_groups,
                                       f[Resolve(f, filepath)].size, filepath),
                       total_files |-> total,
                       status |-> IF total % StatusEvery = 0
                                  THEN Append(acc.status, Ev("status", <<"Scanned", total>>))
                                  ELSE acc.status])

\* The file loop of the scan over the files of one directory: the state
\* [size_groups, total_files, status] after it, status being the status
\* signals emitted.
RECURSIVE ScanFiles(_, _, _, _, _)
ScanFiles(f, min_file_size, root, files, acc) ==
    IF files = <<>> THEN acc
    ELSE LET filepath == Join(root, Head(files))
             keep == /\ Exists(f, filepath)
                     /\ ~IsLink(f, filepath)
                     /\ f[Resolve(f, filepath)].size >= min_file_size
             total == acc.total_files + 1
         IN  ScanFiles(f, min_file_size, root, Tail(files),
                 IF ~keep THEN acc
                 ELSE [size_groups |->
                           GroupAppend(acc.size_groups,
                                       f[Resolve(f, filepath)].size, filepath),
                       total_files |-> total,
                       status |-> IF total % StatusEvery = 0
                                  THEN Append(acc.status, Ev("status", <<"Scanned", total>>))
                                  ELSE acc.status])

\* The number of files that have a same-sized sibling.
RECURSIVE PotentialDuplicates(_)
PotentialDuplicates(size_groups) ==
    IF size_groups = <<>> THEN 0
    ELSE (IF Len(Head(size_groups).paths) > 1 THEN Len(Head(size_groups).paths) ELSE 0)
         + PotentialDuplicates(Tail(size_groups))

\* A faulty variant of HashCandidates: the members of every size group are
\* visited, also of the groups with one member.
RECURSIVE HashEvery(_)
HashEvery(size_groups) ==
    IF size_groups = <<>> THEN <<>>
    ELSE Head(size_groups).paths \o HashEvery(Tail(size_groups))

\* The files the hash stage visits, in order: the members of the size
\* groups with more than one member.
RECURSIVE HashCandidates(_)
HashCandidates(size_groups) ==
    IF size_groups = <<>> THEN <<>>
    ELSE (IF Len(Head(size_groups).paths) > 1 THEN Head(size_groups).paths ELSE <<>>)
         \o HashCandidates(Tail(size_groups))

\* get_file_hash can open and read the file.
CanRead(f, filepath) ==
    /\ Exists(f, filepath)
    /\ f[Resolve(f, filepath)].type = "file"
    /\ f[Resolve(f, filepath)].ok

\* hashlib.md5 of the content: equal content, equal digest (collisions of
\* MD5 are not modelled).  The digest of a file is <<data>>, None is <<>>.
Digest(f, filepath) == <<f[Resolve(f, filepath)].data>>

\* A faulty variant of get_file_hash: when the file cannot be read or the
\* read is interrupted, the digest of what was read so far, nothing, is
\* returned.
get_file_hash_partial(f, filepath, is_cancelled) ==
    IF ~CanRead(f, filepath) THEN <<0>>
    ELSE IF is_cancelled /\ f[Resolve(f, filepath)].size > 0 THEN <<0>>
    ELSE Digest(f, filepath)

\* get_file_hash at its return: None when the file cannot be read or when
\* the cancellation flag is seen after a chunk was read (an empty file has
\* no chunk).
get_file_hash(f, filepath, is_cancelled) ==
    IF ~CanRead(f, filepath) THEN <<>>
    ELSE IF is_cancelled /\ f[Resolve(f, filepath)].size > 0 THEN <<>>
    ELSE Digest(f, filepath)

\* A faulty variant of InsertByMtime: x goes before the elements of its
\* own modification time, so the sort is not stable.
RECURSIVE InsertBeforeEqual(_, _, _)
InsertBeforeEqual(f, sorted, x) ==
    IF sorted = <<>> THEN <<x>>
    ELSE IF f[Resolve(f, x)].mtime <= f[Resolve(f, Head(sorted))].mtime
    THEN <<x>> \o sorted
    ELSE <<Head(sorted)>> \o InsertBeforeEqual(f, Tail(sorted), x)

\* list.sort(key=getmtime): a stable insertion of x into the sorted seq.
RECURSIVE InsertByMtime(_, _, _)
InsertByMtime(f, sorted, x) ==
    IF sorted = <<>> THEN <<x>>
    ELSE IF f[Resolve(f, x)].mtime < f[Resolve(f, Head(sorted))].mtime
    THEN <<x>> \o sorted
    ELSE <<Head(sorted)>> \o InsertByMtime(f, Tail(sorted), x)

RECURSIVE SortedByMtime(_, _, _)
SortedByMtime(f, paths, sorted) ==
    IF paths = <<>> THEN sorted
    ELSE SortedByMtime(f, Tail(paths), InsertByMtime(f, sorted, Head(paths)))

\* file_paths after the try block around sort: sorted by modification time,
\* or left as it is when getmtime raises for a member.
SortGroup(f, file_paths) ==
    IF \A k \in 1..Len(file_paths) : Exists(f, file_paths[k])
    THEN SortedByMtime(f, file_paths, <<>>)
    ELSE file_paths

\* Step 3: the duplicate groups built from the hash groups with more than
\* one member; a group whose first file's size cannot be read is left out.
RECURSIVE Assemble(_, _)
Assemble(f, hash_groups) ==
    IF hash_groups = <<>> THEN <<>>
    ELSE LET g == Head(hash_groups)
             file_paths == SortGroup(f, g.paths)
             file_size == f[Resolve(f, file_paths[1])].size
         IN  (IF Len(g.paths) > 1 /\ Exists(f, file_paths[1])
              THEN <<[hash |-> g.key, files |-> file_paths, size |-> file_size,
                      wasted_space |-> file_size * (Len(file_paths) - 1),
                      count |-> Len(file_paths)]>>
              ELSE <<>>)
             \o Assemble(f, Tail(hash_groups))

\* A faulty variant of TotalWasted: the sizes of the groups are added up.
RECURSIVE TotalSizes(_)
TotalSizes(duplicate_groups) ==
    IF duplicate_groups = <<>> THEN 0
    ELSE Head(duplicate_groups).size + TotalSizes(Tail(duplicate_groups))

RECURSIVE TotalWasted(_)
TotalWasted(duplicate_groups) ==
    IF duplicate_groups = <<>> THEN 0
    ELSE Head(duplicate_groups).wasted_space + TotalWasted(Tail(duplicate_groups))

\* The signals emitted with the result; run() then emits finished.
DupResult(duplicate_groups) ==
    <<Ev("result", [groups |-> duplicate_groups, total |-> TotalWasted(duplicate_groups)]),
      Ev("progress", 100)>>

\* The progress value emitted in the hash stage.
HashProgress(processed_files, potential_duplicates) ==
    PercentOf(processed_files, potential_duplicates)

DfBegin(i) ==
    /\ i \in Created /\ kind[i] = "dup" /\ pc[i] = "queued"
    /\ loc' = [loc EXCEPT ![i] =
           [size_groups |-> <<>>, total_files |-> 0, processed_files |-> 0,
            r |-> 1, walk |-> WalkStart(NoPath), hash_groups |-> <<>>,
            potential_duplicates |-> 0, todo |-> <<>>, h |-> 1]]
    /\ Emit(i, <<Ev("status", <<"Scanning files...">>)>>)
    /\ pc' = [pc EXCEPT ![i] = "df_root"]
    /\ UNCHANGED <<fs, cfg, nInst, kind, args, cancelled, recancel, dlg>>
    /\ UNCHANGED viewerVars

\* A faulty variant of DfRoot: cancellation only breaks out of the loop over
\* the roots, and the check after the loop is missing.
DfRootBreakOnly(i) ==
    /\ i \in Created /\ kind[i] = "dup" /\ pc[i] = "df_root"
    /\ LET l == loc[i]
           root_path == args[i].root_paths[l.r]
       IN  IF cancelled[i] \/ l.r > Len(args[i].root_paths)
           THEN /\ pc' = [pc EXCEPT ![i] = "df_found"]
                /\ UNCHANGED <<loc, emitted, queue>>
           ELSE IF ~Exists(fs, root_path) \/ ~IsDir(fs, root_path)
           THEN /\ loc' = [loc EXCEPT ![i].r = @ + 1]
                /\ UNCHANGED <<pc, emitted, queue>>
           ELSE IF ~CanList(fs, root_path)
           THEN /\ loc' = [loc EXCEPT ![i].r = @ + 1]
                /\ Emit(i, <<Ev("status", <<"Cannot access", root_path>>)>>)
                /\ pc' = pc
           ELSE /\ loc' = [loc EXCEPT ![i].walk = WalkStart(root_path)]
                /\ pc' = [pc EXCEPT ![i] = "df_next"]
                /\ UNCHANGED <<emitted, queue>>
    /\ UNCHANGED <<fs, cfg, nInst, kind, args, cancelled, recancel, dlg>>
    /\ UNCHANGED viewerVars

\* The head of the loop over root_paths and, when the loop ends, the
\* cancellation check that follows it.
DfRoot(i) ==
    /\ i \in Created /\ kind[i] = "dup" /\ pc[i] = "df_root"
    /\ LET l == loc[i]
           root_path == args[i].root_paths[l.r]
       IN  IF cancelled[i]
           THEN /\ pc' = [pc EXCEPT ![i] = "fin"]
                /\ UNCHANGED <<loc, emitted, queue>>
           ELSE IF l.r > Len(args[i].root_paths)
           THEN /\ pc' = [pc EXCEPT ![i] = "df_found"]
                /\ UNCHANGED <<loc, emitted, queue>>
           ELSE IF ~Exists(fs, root_path) \/ ~IsDir(fs, root_path)
           THEN /\ loc' = [loc EXCEPT ![i].r = @ + 1]
                /\ UNCHANGED <<pc, emitted, queue>>
           ELSE IF ~CanList(fs, root_path)
           THEN /\ loc' = [loc EXCEPT ![i].r = @ + 1]
                /\ Emit(i, <<Ev("status", <<"Cannot access", root_path>>)>>)
                /\ pc' = pc
           ELSE /\ loc' = [loc EXCEPT ![i].walk = WalkStart(root_path)]
                /\ pc' = [pc EXCEPT ![i] = "df_next"]
                /\ UNCHANGED <<emitted, queue>>
    /\ UNCHANGED <<fs, cfg, nInst, kind, args, cancelled, recancel, dlg>>
    /\ UNCHANGED viewerVars

\* The code between the scan and the hash stage, which does not look at the
\* cancellation flag: the potential duplicates are counted, and with none
\* the empty result is emitted.
DfFound(i) ==
    /\ i \in Created /\ kind[i] = "dup" /\ pc[i] = "df_found"
    /\ \E potential \in {PotentialDuplicates(loc[i].size_groups)} :
          IF potential = 0
          THEN /\ Emit(i, <<Ev("status", <<"Found", loc[i].total_files>>)>>
                          \o DupResult(<<>>))
               /\ pc' = [pc EXCEPT ![i] = "fin"]
               /\ loc' = loc
          ELSE /\ Emit(i, <<Ev("status", <<"Found", loc[i].total_files>>),
                            Ev("status", <<"Checking", potential>>)>>)
               /\ loc' = [loc EXCEPT ![i].potential_duplicates = potential,
                                     ![i].todo = HashCandidates(loc[i].size_groups)]
               /\ pc' = [pc EXCEPT ![i] = "df_hash"]
    /\ UNCHANGED <<fs, cfg, nInst, kind, args, cancelled, recancel, dlg>>
    /\ UNCHANGED viewerVars

\* The for statement asks os.walk for the next directory of the root.
DfNext(i) ==
    /\ i \in Created /\ kind[i] = "dup" /\ pc[i] = "df_next"
    /\ LET walk == WalkNext(fs, loc[i].walk)
       IN  IF walk.root = NoPath
           THEN /\ loc' = [loc EXCEPT ![i].r = @ + 1]
                /\ pc' = [pc EXCEPT ![i] = "df_root"]
           ELSE /\ loc' = [loc EXCEPT ![i].walk = walk]
                /\ pc' = [pc EXCEPT ![i] = "df_body"]
    /\ UNCHANGED <<fs, cfg, nInst, kind, args, cancelled, recancel, emitted, queue, dlg>>
    /\ UNCHANGED viewerVars

\* The body of the walk loop for one directory: its files are grouped by size.
DfBody(i) ==
    /\ i \in Created /\ kind[i] = "dup" /\ pc[i] = "df_body"
    /\ LET l == loc[i]
           scan == ScanFiles(fs, args[i].min_file_size, l.walk.root, l.walk.files,
                             [size_groups |-> l.size_groups,
                              total_files |-> l.total_files, status |-> <<>>])
       IN  IF cancelled[i]
           THEN /\ loc' = [loc EXCEPT ![i].r = @ + 1]
                /\ pc' = [pc EXCEPT ![i] = "df_root"]
                /\ UNCHANGED <<emitted, queue>>
           ELSE /\ loc' = [loc EXCEPT ![i] =
                       [l EXCEPT !.size_groups = scan.size_groups,
                                 !.total_files = scan.total_files]]
                /\ Emit(i, scan.status)
                /\ pc' = [pc EXCEPT ![i] = "df_next"]
    /\ UNCHANGED <<fs, cfg, nInst, kind, args, cancelled, recancel, dlg>>
    /\ UNCHANGED viewerVars

\* A faulty variant of DfHash: the hash loops and the code after them do
\* not look at the cancellation flag.
DfHashUnchecked(i) ==
    /\ i \in Created /\ kind[i] = "dup" /\ pc[i] = "df_hash"
    /\ pc' = [pc EXCEPT ![i] = IF loc[i].h > Len(loc[i].todo)
                               THEN "df_assemble" ELSE "df_read"]
    /\ UNCHANGED <<fs, cfg, nInst, kind, args, cancelled, recancel, loc, emitted,
                   queue, dlg>>
    /\ UNCHANGED viewerVars

\* The head of the hash loops: the cancellation check before a file, and
\* get_file_hash opening it; when the loops end, the cancellation check
\* that follows them.
DfHash(i) ==
    /\ i \in Created /\ kind[i] = "dup" /\ pc[i] = "df_hash"
    /\ LET l == loc[i]
       IN  IF cancelled[i]
           THEN pc' = [pc EXCEPT ![i] = "fin"]
           ELSE IF l.h > Len(l.todo)
           THEN pc' = [pc EXCEPT ![i] = "df_assemble"]
           ELSE pc' = [pc EXCEPT ![i] = "df_read"]
    /\ UNCHANGED <<fs, cfg, nInst, kind, args, cancelled, recancel, loc, emitted,
                   queue, dlg>>
    /\ UNCHANGED viewerVars

\* Step 3, which does not look at the cancellation flag: the duplicate
\* groups are assembled and the result is emitted.
DfAssemble(i) ==
    /\ i \in Created /\ kind[i] = "dup" /\ pc[i] = "df_assemble"
    /\ Emit(i, DupResult(Assemble(fs, loc[i].hash_groups)))
    /\ pc' = [pc EXCEPT ![i] = "fin"]
    /\ UNCHANGED <<fs, cfg, nInst, kind, args, cancelled, recancel, loc, dlg>>
    /\ UNCHANGED viewerVars

\* get_file_hash returns and the file is counted.
DfRead(i) ==
    /\ i \in Created /\ kind[i] = "dup" /\ pc[i] = "df_read"
    /\ LET l == loc[i]
           filepath == l.todo[l.h]
           file_hash == get_file_hash(fs, filepath, cancelled[i])
           processed_files == l.processed_files + 1
       IN  /\ loc' = [loc EXCEPT ![i] =
                  [l EXCEPT !.hash_groups =
                                IF file_hash # <<>>
                                THEN GroupAppend(@, file_hash, filepath) ELSE @,
                            !.processed_files = processed_files,
                            !.h = @ + 1]]
           /\ Emit(i, IF processed_files % HashProgressEvery = 0
                      THEN <<Ev("progress",
                                HashProgress(processed_files, l.potential_duplicates))>>
                      ELSE <<>>)
           /\ pc' = [pc EXCEPT ![i] = "df_hash"]
    /\ UNCHANGED <<fs, cfg, nInst, kind, args, cancelled, recancel, dlg>>
    /\ UNCHANGED viewerVars

(***************************************************************************)
(* QThreadPool: start() queues the runnable; a pool thread takes the       *)
(* oldest queued runnable when fewer than maxThreadCount are running.      *)
(***************************************************************************)
PoolTakes(i) ==
    /\ pc[i] = "queued"
    /\ \A j \in Created : pc[j] = "queued" => i <= j
    /\ Cardinality({j \in Created : Running(j)}) < cfg.max_threads

\* Instances of kind k created so far.
CountOf(k) == Cardinality({i \in Created : kind[i] = k})

(***************************************************************************)
(* FileViewer: the scheduler of searches and file operations.  While the   *)
(* modal duplicate dialog is open the user cannot reach the main window.   *)
(***************************************************************************)
\* str.strip() of the search text: spaces removed at both ends.
RECURSIVE Strip(_)
Strip(s) ==
    IF s = <<>> THEN s
    ELSE IF Head(s) = " " THEN Strip(Tail(s))
    ELSE IF s[Len(s)] = " " THEN Strip(SubSeq(s, 1, Len(s) - 1))
    ELSE s

\* The shortest query start_search runs a search for.
MinQueryLen == 2

Panels == {cfg.drives[k] : k \in 1..Len(cfg.drives)}

set_active_panel(panel) ==
    /\ ~dlg.open
    /\ panel \in Panels
    /\ active_panel' = panel
    /\ UNCHANGED <<fs, cfg, nInst, queue, current_search_worker, current_file_worker,
                   progress, selection, btn_cancel, reset_timers, dlg>>
    /\ UNCHANGED workerVars

\* start_search, run on every change of the search text.
start_search(text) ==
    /\ ~dlg.open
    /\ text \in cfg.queries
    /\ LET query == Strip(text)
           prev == current_search_worker
           new == nInst + 1
           cleared == IF active_panel = NoPath THEN selection
                      ELSE [selection EXCEPT ![active_panel] = <<>>]
       IN  /\ IF prev # 0 THEN CallCancel(prev) ELSE UNCHANGED <<cancelled, recancel>>
           /\ IF query = <<>>
              THEN /\ selection' = cleared
                   /\ progress' = 0
                   /\ btn_cancel' = FALSE
                   /\ UNCHANGED <<nInst, kind, args, pc, current_search_worker>>
              ELSE IF active_panel = NoPath \/ Len(query) < MinQueryLen
              THEN UNCHANGED <<selection, progress, btn_cancel, nInst, kind, args, pc,
                               current_search_worker>>
              ELSE /\ new <= MaxInst /\ CountOf("search") < cfg.limit.search
                   /\ selection' = cleared
                   /\ progress' = 0
                   /\ btn_cancel' = TRUE
                   /\ Submit(new, "search",
                             [root_path |-> active_panel, query |-> Lower(query)])
                   /\ current_search_worker' = new
    /\ UNCHANGED <<fs, cfg, loc, emitted, queue, active_panel, current_file_worker,
                   reset_timers, dlg>>

\* A faulty variant of start_file_operation: the running search is
\* cancelled and forgotten too.
start_file_operation_exclusive(req) ==
    /\ ~dlg.open
    /\ req \in cfg.fileops
    /\ nInst + 1 <= MaxInst /\ CountOf("fileop") < cfg.limit.fileop
    /\ cancelled' = [i \in Insts |->
           cancelled[i] \/ i \in {current_file_worker, current_search_worker}]
    /\ progress' = 1
    /\ btn_cancel' = TRUE
    /\ Submit(nInst + 1, "fileop", req)
    /\ current_file_worker' = nInst + 1
    /\ current_search_worker' = 0
    /\ UNCHANGED <<fs, cfg, recancel, loc, emitted, queue, active_panel,
                   selection, reset_timers, dlg>>

\* start_file_operation, called by paste and by drag and drop.
start_file_operation(req) ==
    /\ ~dlg.open
    /\ req \in cfg.fileops
    /\ LET prev == current_file_worker
           new == nInst + 1
       IN  /\ new <= MaxInst /\ CountOf("fileop") < cfg.limit.fileop
           /\ IF prev # 0 THEN CallCancel(prev) ELSE UNCHANGED <<cancelled, recancel>>
           /\ progress' = 1
           /\ btn_cancel' = TRUE
           /\ Submit(new, "fileop", req)
           /\ current_file_worker' = new
    /\ UNCHANGED <<fs, cfg, loc, emitted, queue, active_panel, current_search_worker,
                   selection, reset_timers, dlg>>

\* cancel_operation, the slot of the Cancel button.
cancel_operation ==
    /\ ~dlg.open
    /\ btn_cancel
    /\ LET s == current_search_worker
           f == current_file_worker
           c1 == IF s # 0 THEN cancel(cancelled, s) ELSE cancelled
           c2 == IF f # 0 THEN cancel(c1, f) ELSE c1
       IN  /\ cancelled' = c2
           /\ recancel' = [i \in Insts |->
                  recancel[i] \/ (i \in ({s, f} \ {0}) /\ cancelled[i])]
           /\ current_search_worker' = 0
           /\ current_file_worker' = 0
           /\ IF s # 0 \/ f # 0
              THEN progress' = 0 /\ btn_cancel' = FALSE
              ELSE UNCHANGED <<progress, btn_cancel>>
    /\ UNCHANGED <<fs, cfg, nInst, kind, args, pc, loc, emitted, queue, active_panel,
                   selection, reset_timers, dlg>>

\* select_and_expand_paths: the selection is cleared and the existing paths
\* selected.
select_and_expand_paths(f, paths) == SelectSeq(paths, LAMBDA q : Exists(f, q))

\* The slots connected to a SearchWorker's signals, run for the delivery e.
SearchSlot(e) ==
    CASE e.sig = "result" ->
            \* show_search_results
            /\ selection' = IF active_panel = NoPath \/ e.val = <<>> THEN selection
                            ELSE [selection EXCEPT ![active_panel] =
                                     select_and_expand_paths(fs, e.val)]
            /\ UNCHANGED <<progress, current_search_worker, btn_cancel>>
      [] e.sig = "progress" ->
            \* update_progress
            /\ progress' = e.val
            /\ UNCHANGED <<selection, current_search_worker, btn_cancel>>
      [] OTHER ->
            \* search_finished
            /\ current_search_worker' = 0
            /\ btn_cancel' = FALSE
            /\ UNCHANGED <<selection, progress>>

\* The main thread delivers the oldest queued signal of a search worker.
SearchDeliver ==
    /\ queue # <<>>
    /\ kind[Head(queue).inst] = "search"
    /\ queue' = Tail(queue)
    /\ SearchSlot(Head(queue))
    /\ UNCHANGED <<fs, cfg, nInst, active_panel, current_file_worker, reset_timers, dlg>>
    /\ UNCHANGED workerVars

\* The slots connected to a FileOperationWorker's signals.
FileSlot(e) ==
    CASE e.sig = "progress" ->
            \* update_file_progress
            /\ progress' = e.val
            /\ UNCHANGED <<current_file_worker, btn_cancel, reset_timers>>
      [] e.sig = "result" ->
            \* handle_file_operation_result
            /\ progress' = 100
            /\ reset_timers' = reset_timers + 1
            /\ UNCHANGED <<current_file_worker, btn_cancel>>
      [] e.sig = "error" ->
            \* handle_file_operation_error: a message box
            UNCHANGED <<progress, current_file_worker, btn_cancel, reset_timers>>
      [] OTHER ->
            \* file_operation_finished
            /\ current_file_worker' = 0
            /\ btn_cancel' = FALSE
            /\ UNCHANGED <<progress, reset_timers>>

\* The main thread delivers the oldest queued signal of a file operation.
FileDeliver ==
    /\ queue # <<>>
    /\ kind[Head(queue).inst] = "fileop"
    /\ queue' = Tail(queue)
    /\ FileSlot(Head(queue))
    /\ UNCHANGED <<fs, cfg, nInst, active_panel, current_search_worker, selection, dlg>>
    /\ UNCHANGED workerVars

\* QTimer.singleShot(2000, lambda: self.progress.setValue(0)) fires.
ProgressReset ==
    /\ reset_timers > 0
    /\ reset_timers' = reset_timers - 1
    /\ progress' = 0
    /\ UNCHANGED <<fs, cfg, nInst, queue, active_panel, current_search_worker,
                   current_file_worker, selection, btn_cancel, dlg>>
    /\ UNCHANGED workerVars

(***************************************************************************)
(* DuplicateFilesDialog.  show_duplicate_finder creates a new dialog and    *)
(* runs it modally; dlg is the dialog created last, and a worker started   *)
(* by an earlier dialog is connected to that earlier dialog's slots.       *)
(***************************************************************************)
NewDialog(gen, open) ==
    [gen |-> gen, open |-> open, current_worker |-> 0, scan_button |-> TRUE,
     cancel_button |-> FALSE, progress_visible |-> FALSE, progress_bar |-> 0,
     results_visible |-> FALSE, duplicate_groups |-> <<>>, tree |-> <<>>]

show_duplicate_finder ==
    /\ ~dlg.open
    /\ dlg.gen < cfg.limit.dialogs
    /\ dlg' = NewDialog(dlg.gen + 1, TRUE)
    /\ UNCHANGED <<fs, cfg, nInst, queue>>
    /\ UNCHANGED workerVars
    /\ UNCHANGED viewerVars

\* The user closes the dialog: exec() returns.
CloseDialog ==
    /\ dlg.open
    /\ dlg' = [dlg EXCEPT !.open = FALSE]
    /\ UNCHANGED <<fs, cfg, nInst, queue>>
    /\ UNCHANGED workerVars
    /\ UNCHANGED viewerVars

\* The checked drives, in the order of the checkboxes.
Selected(checked) == SelectSeq(cfg.drives, LAMBDA d : d \in checked)

\* start_scan from its "Update UI" comment on: the dialog after it.
ScanStarted(d, new) ==
    [d EXCEPT !.scan_button = FALSE, !.cancel_button = TRUE,
              !.progress_visible = TRUE, !.progress_bar = 0,
              !.results_visible = FALSE, !.current_worker = new]

\* start_scan, the slot of the Start Scan button, with the drives checked
\* and the minimum size chosen in the dialog.
start_scan ==
    /\ dlg.open /\ dlg.scan_button
    /\ nInst < MaxInst /\ CountOf("dup") < cfg.limit.dup
    /\ \E checked \in (SUBSET Panels) \ {{}}, min_size_bytes \in cfg.min_sizes :
          Submit(nInst + 1, "dup",
                 [root_paths |-> Selected(checked), min_file_size |-> min_size_bytes,
                  dialog |-> dlg.gen])
    /\ dlg' = ScanStarted(dlg, nInst + 1)
    /\ UNCHANGED <<fs, cfg, cancelled, recancel, loc, emitted, queue>>
    /\ UNCHANGED viewerVars

\* The files shown as "Duplicate" in the tree: all but the first of a group.
TreeDuplicates(tree) ==
    UNION {{tree[g].files[k] : k \in 2..Len(tree[g].files)} : g \in 1..Len(tree)}

\* os.remove of every path in S that names a file or a symbolic link.
Removed(f, S) ==
    Without(f, {LResolve(f, q) : q \in {x \in S : LResolve(f, x) # NoPath
                                             /\ f[LResolve(f, x)].type # "dir"}})

\* delete_selected_files: the checked duplicates are removed and start_scan
\* is called to refresh the results.
delete_selected_files ==
    /\ dlg.open /\ dlg.results_visible
    /\ nInst < MaxInst /\ CountOf("dup") < cfg.limit.dup
    /\ \E files_to_delete \in (SUBSET TreeDuplicates(dlg.tree)) \ {{}} :
          fs' = Removed(fs, files_to_delete)
    /\ \E checked \in (SUBSET Panels) \ {{}}, min_size_bytes \in cfg.min_sizes :
          Submit(nInst + 1, "dup",
                 [root_paths |-> Selected(checked), min_file_size |-> min_size_bytes,
                  dialog |-> dlg.gen])
    /\ dlg' = ScanStarted(dlg, nInst + 1)
    /\ UNCHANGED <<cfg, cancelled, recancel, loc, emitted, queue>>
    /\ UNCHANGED viewerVars

\* cancel_scan, the slot of the Cancel Scan button.
cancel_scan ==
    /\ dlg.open /\ dlg.cancel_button
    /\ dlg.current_worker # 0
    /\ CallCancel(dlg.current_worker)
    /\ UNCHANGED <<fs, cfg, nInst, kind, args, pc, loc, emitted, queue, dlg>>
    /\ UNCHANGED viewerVars

\* The slots connected to a DuplicateFinderWorker's signals: the dialog
\* after the delivery e.
DialogSlot(d, e) ==
    CASE e.sig = "progress" -> [d EXCEPT !.progress_bar = e.val]
      [] e.sig = "status" -> d
      [] e.sig = "result" ->
            IF e.val.groups = <<>>
            THEN [d EXCEPT !.duplicate_groups = <<>>, !.results_visible = TRUE]
            ELSE [d EXCEPT !.duplicate_groups = e.val.groups, !.tree = e.val.groups,
                           !.results_visible = TRUE]
      [] OTHER -> [d EXCEPT !.scan_button = TRUE, !.cancel_button = FALSE,
                            !.progress_visible = FALSE, !.current_worker = 0]

\* The main thread delivers the oldest queued signal of a duplicate scan to
\* the dialog that started it.
DialogDeliver ==
    /\ queue # <<>>
    /\ kind[Head(queue).inst] = "dup"
    /\ queue' = Tail(queue)
    /\ dlg' = IF args[Head(queue).inst].dialog = dlg.gen
              THEN DialogSlot(dlg, Head(queue)) ELSE dlg
    /\ UNCHANGED <<fs, cfg, nInst>>
    /\ UNCHANGED workerVars
    /\ UNCHANGED viewerVars

(***************************************************************************)
(* Specifications.  A behaviour starts from one scenario: a filesystem and *)
(* what the user may ask for (cfg), with a limit on the workers of each    *)
(* kind created in the behaviour.                                          *)
(***************************************************************************)
\* Worker instances of each kind, and dialogs, created in one behaviour.
MaxSearch == 3
MaxFileOp == 2
MaxDup == 2
MaxDialogs == 2
\* Directories below the root of the deep tree, files of the flat tree.
ChainDepth == 10
FlatFiles == 20
ManyDirs == 50
FilesPerDir == 10
\* Items of the long file operation.
BatchItems == 50
\* Directories of the wide tree, and matching files in the last of them.
WideDirs == 50
MatchFiles == 201

\* Path and name literals.
P_d == <<"/", "d">>
P_ab == <<"/", "a", "b">>
P_d_ab == <<"/", "d", "/", "a", "b">>
P_x == <<"/", "x">>
P_nx == <<"/", "n", "x">>
Q_ab == <<"a", "b">>
P_l == <<"/", "l">>
P_a_b == <<"/", "a", ".", "b">>
P_d_a_b == <<"/", "d", "/", "a", ".", "b">>

\* A small tree: /ab and /d/ab are files with the same content.
FsSmall ==
    (Root :> DirNode(TRUE, 0))
    @@ (P_ab :> FileNode(1, 1, 2, TRUE, 1))
    @@ (P_d :> DirNode(TRUE, 2))
    @@ (P_d_ab :> FileNode(1, 1, 1, TRUE, 3))

\* A tree of names with an extension: /a.b and /d/a.b.
FsExt ==
    (Root :> DirNode(TRUE, 0))
    @@ (P_a_b :> FileNode(1, 1, 2, TRUE, 1))
    @@ (P_d :> DirNode(TRUE, 2))
    @@ (P_d_a_b :> FileNode(1, 2, 1, TRUE, 3))

\* A tree with a symbolic link: /l points to the directory /d.
FsLink ==
    (Root :> DirNode(TRUE, 0))
    @@ (P_d :> DirNode(TRUE, 1))
    @@ (P_d_ab :> FileNode(1, 1, 1, TRUE, 2))
    @@ (P_l :> LinkNode(P_d, 3))

\* A tree with a directory that cannot be listed: /d.
FsLocked ==
    (Root :> DirNode(TRUE, 0))
    @@ (P_ab :> FileNode(1, 1, 1, TRUE, 1))
    @@ (P_d :> DirNode(FALSE, 2))

\* Drives that are gone since they were listed: a missing path, a file and
\* a directory that cannot be listed.
Unavailable == <<P_x, P_ab, P_d>>

\* A deep tree: /d, /d/d, ... (ChainDepth directories) and the file ab in
\* the deepest one.
RECURSIVE ChainDir(_)
ChainDir(n) == IF n = 0 THEN <<>> ELSE ChainDir(n - 1) \o P_d

FsDeep ==
    [q \in {Root} \cup {ChainDir(n) : n \in 1..ChainDepth}
           \cup {ChainDir(ChainDepth) \o P_ab} |->
        IF q = Root THEN DirNode(TRUE, 0)
        ELSE IF q = ChainDir(ChainDepth) \o P_ab THEN FileNode(1, 1, 1, TRUE, 1)
        ELSE DirNode(TRUE, 1)]

\* A flat tree: the files /1 .. /FlatFiles, all of one size, with two
\* different contents.
FsFlat ==
    [q \in {Root} \cup {Root \o Str(n) : n \in 1..FlatFiles} |->
        IF q = Root THEN DirNode(TRUE, 0)
        ELSE LET n == CHOOSE m \in 1..FlatFiles : q = Root \o Str(m)
             IN  FileNode(1, n % 2, n, TRUE, n)]

\* A wide tree: the directories /1 .. /WideDirs, and in the last of them
\* the files ab1 .. ab<MatchFiles>.
WideFile(n) == Root \o Str(WideDirs) \o <<Sep>> \o Q_ab \o Str(n)

FsWide ==
    [q \in {Root} \cup {Root \o Str(n) : n \in 1..WideDirs}
           \cup {WideFile(n) : n \in 1..MatchFiles} |->
        IF q = Root THEN DirNode(TRUE, 0)
        ELSE IF q \in {Root \o Str(n) : n \in 1..WideDirs}
        THEN DirNode(TRUE, CHOOSE m \in 1..WideDirs : q = Root \o Str(m))
        ELSE FileNode(1, 1, 1, TRUE, CHOOSE m \in 1..MatchFiles : q = WideFile(m))]

\* A tree of names: the directory /ab with the files ab and x, the files
\* /AB, /xab and /x, the link /l to /ab, the link /abf to /x, the dangling
\* link /abl, and the unlistable directory /d with the file ab.
FsNames ==
    (Root :> DirNode(TRUE, 0))
    @@ (P_ab :> DirNode(TRUE, 1))
    @@ (P_ab \o P_ab :> FileNode(1, 1, 1, TRUE, 2))
    @@ (P_ab \o P_x :> FileNode(1, 1, 1, TRUE, 3))
    @@ (<<Sep, "A", "B">> :> FileNode(1, 1, 1, TRUE, 4))
    @@ (P_x \o Q_ab :> FileNode(1, 1, 1, TRUE, 5))
    @@ (P_x :> FileNode(1, 1, 1, TRUE, 6))
    @@ (P_l :> LinkNode(P_ab, 7))
    @@ (P_ab \o <<"f">> :> LinkNode(P_x, 8))
    @@ (P_ab \o <<"l">> :> LinkNode(P_nx, 9))
    @@ (P_d :> DirNode(FALSE, 10))
    @@ (P_d_ab :> FileNode(1, 1, 1, TRUE, 11))

\* The file operations asked for.
CopyAbToD == [source_paths |-> <<P_ab>>, destination_dir |-> P_d, operation |-> "copy"]
MoveAbToX == [source_paths |-> <<P_ab>>, destination_dir |-> P_x, operation |-> "move"]
CopyToFile == [source_paths |-> <<P_d_ab>>, destination_dir |-> P_ab, operation |-> "copy"]
Mixed(operation) ==
    [source_paths |-> <<P_ab, P_nx, P_d, P_d_ab>>, destination_dir |-> P_d,
     operation |-> operation]

\* Two copies of one name in one run, with a vanished source between them.
CopyTwice ==
    [source_paths |-> <<P_a_b, P_nx, P_d_a_b>>, destination_dir |-> P_d,
     operation |-> "copy"]
\* A directory copied or moved into a link to itself.
IntoLink(operation) ==
    [source_paths |-> <<P_d>>, destination_dir |-> P_l, operation |-> operation]
\* A long operation, every source of which has vanished.
Batch ==
    [source_paths |-> [k \in 1..BatchItems |-> P_nx], destination_dir |-> P_d,
     operation |-> "copy"]

Scenario(f, queries, fileops, search, fileop, dup, dialogs) ==
    [fs |-> f,
     cfg |-> [drives |-> <<Root>>, queries |-> queries, fileops |-> fileops,
              min_sizes |-> {0}, volatile |-> {},
              limit |-> [search |-> search, fileop |-> fileop, dup |-> dup,
                         dialogs |-> dialogs],
              max_threads |-> MaxInst]]

\* Searches superseding one another; one search of the deep tree.
SearchScenarios ==
    {Scenario(FsSmall, {Q_ab}, {}, MaxSearch, 0, 0, 0),
     Scenario(FsDeep, {Q_ab, <<>>}, {}, 1, 0, 0, 0),
     Scenario(FsWide, {Q_ab}, {}, 1, 0, 0, 0),
     Scenario(FsNames, {Q_ab, <<"A", "b">>}, {}, 1, 0, 0, 0)}

\* File operations superseding one another; one operation on four items.
FileOpScenarios ==
    {Scenario(FsSmall, {}, {CopyAbToD, MoveAbToX}, 0, MaxFileOp, 0, 0),
     Scenario(FsSmall, {}, {CopyToFile, Mixed("copy"), Mixed("move")}, 0, 1, 0, 0),
     Scenario(FsExt, {}, {CopyTwice}, 0, 1, 0, 0),
     Scenario(FsLink, {}, {IntoLink("copy"), IntoLink("move")}, 0, 1, 0, 0),
     Scenario(FsSmall, {}, {Batch}, 0, 1, 0, 0)}

\* Scans started from the dialog; one scan of the flat tree.
DupScenarios ==
    {Scenario(FsSmall, {}, {}, 0, 0, MaxDup, MaxDialogs),
     Scenario(FsFlat, {}, {}, 0, 0, 1, 1)}

\* A tree for one scan: /1, /2 and /3 have one content (/2 and /3 the
\* older, of equal age), /4 has their size and another content, /5 their
\* size and content and cannot be read, /6 and /7 are smaller and have one
\* content, /8 is the only file of its size, /l is a symbolic link to /1.
FsMixed ==
    (Root :> DirNode(TRUE, 0))
    @@ (Root \o Str(1) :> FileNode(2, 1, 3, TRUE, 1))
    @@ (Root \o Str(2) :> FileNode(2, 1, 1, TRUE, 2))
    @@ (Root \o Str(3) :> FileNode(2, 1, 1, TRUE, 3))
    @@ (Root \o Str(4) :> FileNode(2, 2, 1, TRUE, 4))
    @@ (Root \o Str(5) :> FileNode(2, 1, 1, FALSE, 5))
    @@ (Root \o Str(6) :> FileNode(1, 3, 2, TRUE, 6))
    @@ (Root \o Str(7) :> FileNode(1, 3, 1, TRUE, 7))
    @@ (Root \o Str(8) :> FileNode(3, 4, 1, TRUE, 8))
    @@ (P_l :> LinkNode(Root \o Str(1), 9))

\* One scan of the mixed tree with either minimum size while another
\* process may remove /1 or /2, and one scan of the drives / and /d, the
\* second mounted inside the first.
ScanScenarios ==
    {[Scenario(FsMixed, {}, {}, 0, 0, 1, 1)
          EXCEPT !.cfg.min_sizes = {0, 2},
                 !.cfg.volatile = {Root \o Str(1), Root \o Str(2)}],
     [Scenario(FsExt, {}, {}, 0, 0, 1, 1) EXCEPT !.cfg.drives = <<Root, P_d>>]}

\* The three kinds in one program: a search and a file operation side by
\* side, scans started from one dialog, and the larger workloads.
ProgramScenarios ==
    {Scenario(FsSmall, {Q_ab}, {CopyAbToD}, 1, 1, 0, 0),
     Scenario(FsSmall, {}, {}, 0, 0, MaxDup, 1),
     Scenario(FsDeep, {Q_ab, <<>>}, {}, 1, 0, 0, 0),
     Scenario(FsSmall, {}, {CopyToFile, Mixed("copy"), Mixed("move")}, 0, 1, 0, 0),
     Scenario(FsFlat, {}, {}, 0, 0, 1, 1),
     [Scenario(FsLocked, {Q_ab}, {}, 1, 0, 1, 1) EXCEPT !.cfg.drives = Unavailable],
     [Scenario(FsLocked, {}, {}, 0, 0, 1, 1)
          EXCEPT !.cfg.drives = Unavailable \o <<Root>>]}

InitState(f, c) ==
    /\ fs = f
    /\ cfg = c
    /\ nInst = 0
    /\ kind = [i \in Insts |-> "none"]
    /\ args = [i \in Insts |-> NoArgs]
    /\ cancelled = [i \in Insts |-> FALSE]
    /\ recancel = [i \in Insts |-> FALSE]
    /\ pc = [i \in Insts |-> "none"]
    /\ loc = [i \in Insts |-> NoLoc]
    /\ emitted = [i \in Insts |-> <<>>]
    /\ queue = <<>>
    /\ active_panel = NoPath
    /\ current_search_worker = 0
    /\ current_file_worker = 0
    /\ progress = 0
    /\ selection = [d \in {c.drives[k] : k \in 1..Len(c.drives)} |-> <<>>]
    /\ btn_cancel = FALSE
    /\ reset_timers = 0
    /\ dlg = NewDialog(0, FALSE)

FileOpStep(i) == (PoolTakes(i) /\ FoBegin(i)) \/ FoCheck(i) \/ FoCopy(i)
SearchStep(i) == (PoolTakes(i) /\ SrBegin(i)) \/ SrNext(i) \/ SrBody(i)
DupStep(i) == (PoolTakes(i) /\ DfBegin(i)) \/ DfRoot(i) \/ DfFound(i) \/ DfNext(i)
                 \/ DfBody(i) \/ DfHash(i) \/ DfRead(i) \/ DfAssemble(i)

\* FileViewer running searches.
InitSearch == \E sc \in SearchScenarios : InitState(sc.fs, sc.cfg)

NextSearch ==
    \/ \E panel \in Panels : set_active_panel(panel)
    \/ \E text \in cfg.queries : start_search(text)
    \/ cancel_operation
    \/ SearchDeliver
    \/ \E i \in Insts : SearchStep(i) \/ Finish(i)

SpecSearch == InitSearch /\ [][NextSearch]_vars

\* FileViewer running file operations.
InitFileOp == \E sc \in FileOpScenarios : InitState(sc.fs, sc.cfg)

NextFileOp ==
    \/ \E req \in cfg.fileops : start_file_operation(req)
    \/ cancel_operation
    \/ FileDeliver
    \/ ProgressReset
    \/ \E i \in Insts : FileOpStep(i) \/ Finish(i)

SpecFileOp == InitFileOp /\ [][NextFileOp]_vars

\* DuplicateFilesDialog running scans.
InitDup == \E sc \in DupScenarios : InitState(sc.fs, sc.cfg)

NextDup ==
    \/ show_duplicate_finder
    \/ CloseDialog
    \/ start_scan
    \/ delete_selected_files
    \/ cancel_scan
    \/ DialogDeliver
    \/ \E i \in Insts : DupStep(i) \/ Finish(i)

SpecDup == InitDup /\ [][NextDup]_vars

\* Another process removes the file p while the program runs.
FileVanishes(p) ==
    /\ p \in cfg.volatile /\ p \in DOMAIN fs
    /\ fs' = Without(fs, {p})
    /\ UNCHANGED <<cfg, nInst, queue, dlg>>
    /\ UNCHANGED workerVars
    /\ UNCHANGED viewerVars

\* One scan on a filesystem that other processes change.
InitScan == \E sc \in ScanScenarios : InitState(sc.fs, sc.cfg)

NextScan ==
    \/ show_duplicate_finder
    \/ CloseDialog
    \/ start_scan
    \/ cancel_scan
    \/ DialogDeliver
    \/ \E i \in Insts : DupStep(i) \/ Finish(i)
    \/ \E p \in cfg.volatile : FileVanishes(p)

SpecScan == InitScan /\ [][NextScan]_vars

\* Another process truncates the file p to no content.
FileTruncated(p) ==
    /\ p \in cfg.volatile /\ p \in DOMAIN fs /\ fs[p].type = "file"
    /\ fs' = [fs EXCEPT ![p].size = 0, ![p].data = 0]
    /\ UNCHANGED <<cfg, nInst, queue, dlg>>
    /\ UNCHANGED workerVars
    /\ UNCHANGED viewerVars

\* Another process replaces the file p by a copy of the file q, with the
\* size, the content and the modification time of q.
FileReplaced(p, q) ==
    /\ p \in cfg.volatile /\ p \in DOMAIN fs /\ fs[p].type = "file"
    /\ q \in cfg.volatile /\ q \in DOMAIN fs /\ fs[q].type = "file"
    /\ p # q
    /\ fs' = [fs EXCEPT ![p].size = fs[q].size, ![p].data = fs[q].data,
                        ![p].mtime = fs[q].mtime]
    /\ UNCHANGED <<cfg, nInst, queue, dlg>>
    /\ UNCHANGED workerVars
    /\ UNCHANGED viewerVars

\* A tree of two sizes: /1 and /2 have one size and content, /6 and /7 a
\* smaller size and another content.
FsSizes ==
    (Root :> DirNode(TRUE, 0))
    @@ (Root \o Str(1) :> FileNode(2, 1, 1, TRUE, 1))
    @@ (Root \o Str(2) :> FileNode(2, 1, 2, TRUE, 2))
    @@ (Root \o Str(6) :> FileNode(1, 3, 3, TRUE, 3))
    @@ (Root \o Str(7) :> FileNode(1, 3, 4, TRUE, 4))

\* One search of the small tree while another process may remove, truncate
\* or replace /ab and /d/ab, and one scan of the tree of two sizes while
\* another process may do so with /1 and /6.
RaceScenarios ==
    {[Scenario(FsSmall, {Q_ab}, {}, 1, 0, 0, 0)
          EXCEPT !.cfg.volatile = {P_ab, P_d_ab}],
     [Scenario(FsSizes, {}, {}, 0, 0, 1, 1)
          EXCEPT !.cfg.volatile = {Root \o Str(1), Root \o Str(6)}]}

\* One search or one scan on a filesystem that other processes change.
InitRace == \E sc \in RaceScenarios : InitState(sc.fs, sc.cfg)

NextRace ==
    \/ \E panel \in Panels : set_active_panel(panel)
    \/ \E text \in cfg.queries : start_search(text)
    \/ cancel_operation
    \/ SearchDeliver
    \/ show_duplicate_finder
    \/ CloseDialog
    \/ start_scan
    \/ cancel_scan
    \/ DialogDeliver
    \/ \E i \in Insts : SearchStep(i) \/ DupStep(i) \/ Finish(i)
    \/ \E p \in cfg.volatile : FileVanishes(p) \/ FileTruncated(p)
    \/ \E p, q \in cfg.volatile : FileReplaced(p, q)

SpecRace == InitRace /\ [][NextRace]_vars

\* A tree with cycles of symbolic links: /d/l points up to the root, /l to
\* the directory /d, and /x and /nx to each other; /ab and /d/ab are files
\* of one content.
FsCycle ==
    (Root :> DirNode(TRUE, 0))
    @@ (P_ab :> FileNode(1, 1, 2, TRUE, 1))
    @@ (P_d :> DirNode(TRUE, 2))
    @@ (P_d_ab :> FileNode(1, 1, 1, TRUE, 3))
    @@ (P_d \o P_l :> LinkNode(Root, 4))
    @@ (P_l :> LinkNode(P_d, 5))
    @@ (P_x :> LinkNode(P_nx, 6))
    @@ (P_nx :> LinkNode(P_x, 7))

\* One search and one scan of the tree with link cycles, the scan of the
\* drives / and /d, and one file operation on four items or into a
\* destination that does not exist.
LiveScenarios ==
    {Scenario(FsCycle, {Q_ab}, {}, 1, 0, 0, 0),
     [Scenario(FsCycle, {}, {}, 0, 0, 1, 1) EXCEPT !.cfg.drives = <<Root, P_d>>],
     Scenario(FsSmall, {}, {Mixed("copy"), MoveAbToX}, 0, 1, 0, 0)}

\* The program with pool threads that keep running: a worker whose run()
\* can take its next step eventually takes it.
InitLive == \E sc \in LiveScenarios : InitState(sc.fs, sc.cfg)

NextLive ==
    \/ \E panel \in Panels : set_active_panel(panel)
    \/ \E text \in cfg.queries : start_search(text)
    \/ \E req \in cfg.fileops : start_file_operation(req)
    \/ cancel_operation
    \/ SearchDeliver
    \/ FileDeliver
    \/ ProgressReset
    \/ show_duplicate_finder
    \/ CloseDialog
    \/ start_scan
    \/ cancel_scan
    \/ DialogDeliver
    \/ \E i \in Insts : SearchStep(i) \/ FileOpStep(i) \/ DupStep(i) \/ Finish(i)

\* run() of instance i can take a step before its last statement: a pool
\* thread has taken it or can take it, and run() is not at its end.  No
\* step of run() waits for anything, so this is when such a step of i is
\* enabled.
CanStep(i) ==
    /\ pc[i] \notin {"none", "fin", "done"}
    /\ pc[i] = "queued" => PoolTakes(i)

\* Weak fairness of the steps of run() of instance i: the last statement,
\* and the steps before it, for which the condition is written out with
\* CanStep as the enabling condition.
ThreadRuns(i) ==
    /\ WF_vars(Finish(i))
    /\ <>[]CanStep(i) => []<><<SearchStep(i) \/ FileOpStep(i) \/ DupStep(i)>>_vars

SpecLive == InitLive /\ [][NextLive]_vars /\ \A i \in Insts : ThreadRuns(i)

\* A tree for the self-containment guard: the directory /d holds the file
\* /d/ab and the directory /d/d; /dx is a sibling of /d whose name begins
\* with the name of /d.
P_dx == <<"/", "d", "x">>
P_d_d == <<"/", "d", "/", "d">>
FsGuard ==
    (Root :> DirNode(TRUE, 0))
    @@ (P_d :> DirNode(TRUE, 1))
    @@ (P_d_ab :> FileNode(1, 1, 1, TRUE, 2))
    @@ (P_d_d :> DirNode(TRUE, 3))
    @@ (P_dx :> DirNode(TRUE, 4))

\* Items sent to a sibling, to their parent, to themselves, below
\* themselves, and the drive itself (a path dropped as text) sent into one
\* of its directories.
IntoSibling(operation) ==
    [source_paths |-> <<P_d_ab, P_d>>, destination_dir |-> P_dx, operation |-> operation]
IntoParent(operation) ==
    [source_paths |-> <<P_d_ab, P_d_d>>, destination_dir |-> P_d, operation |-> operation]
IntoSelf(operation) ==
    [source_paths |-> <<P_d, P_d_d>>, destination_dir |-> P_d_d, operation |-> operation]
FromDrive(operation) ==
    [source_paths |-> <<Root, P_d_ab>>, destination_dir |-> P_dx, operation |-> operation]

GuardScenarios ==
    {Scenario(FsGuard, {}, {IntoSibling(op), IntoParent(op), IntoSelf(op), FromDrive(op)},
              0, 1, 0, 0) : op \in {"copy", "move"}}

\* FileViewer running one file operation past the self-containment guard.
InitGuard == \E sc \in GuardScenarios : InitState(sc.fs, sc.cfg)

SpecGuard == InitGuard /\ [][NextFileOp]_vars

\* Many files: the directories /1 .. /ManyDirs hold the files 1 ..
\* FilesPerDir each, all of one size; the files of directory d have the
\* content d % 25, so that every file has duplicates.
ManyFile(d, n) == Root \o Str(d) \o <<Sep>> \o Str(n)

FsMany ==
    [q \in {Root} \cup {Root \o Str(d) : d \in 1..ManyDirs}
           \cup {ManyFile(d, n) : d \in 1..ManyDirs, n \in 1..FilesPerDir} |->
        IF q = Root THEN DirNode(TRUE, 0)
        ELSE IF \E d \in 1..ManyDirs : q = Root \o Str(d)
        THEN DirNode(TRUE, CHOOSE d \in 1..ManyDirs : q = Root \o Str(d))
        ELSE LET at == CHOOSE dn \in (1..ManyDirs) \X (1..FilesPerDir) :
                           q = ManyFile(dn[1], dn[2])
             IN  FileNode(1, at[1] % 25, 1, TRUE, at[2])]

HashScenarios == {Scenario(FsMany, {}, {}, 0, 0, 1, 1)}

\* DuplicateFilesDialog running one scan of the many files.  The slots of
\* the dialog, which do not touch the worker, are not scheduled while the
\* scan runs.
InitHash == \E sc \in HashScenarios : InitState(sc.fs, sc.cfg)

NextHash ==
    \/ show_duplicate_finder
    \/ CloseDialog
    \/ start_scan
    \/ cancel_scan
    \/ \E i \in Insts : DupStep(i) \/ Finish(i)

SpecHash == InitHash /\ [][NextHash]_vars

\* The whole program.
Init == \E sc \in ProgramScenarios : InitState(sc.fs, sc.cfg)

Next ==
    \/ \E panel \in Panels : set_active_panel(panel)
    \/ \E text \in cfg.queries : start_search(text)
    \/ \E req \in cfg.fileops : start_file_operation(req)
    \/ cancel_operation
    \/ SearchDeliver
    \/ FileDeliver
    \/ ProgressReset
    \/ show_duplicate_finder
    \/ CloseDialog
    \/ start_scan
    \/ delete_selected_files
    \/ cancel_scan
    \/ DialogDeliver
    \/ \E i \in Insts : SearchStep(i) \/ FileOpStep(i) \/ DupStep(i) \/ Finish(i)

Spec == Init /\ [][Next]_vars

(***************************************************************************)
(* Properties.                                                             *)
(***************************************************************************)
\* The signals of one name emitted by instance i, in order.
Signals(i, sig) == SelectSeq(emitted[i], LAMBDA e : e.sig = sig)

\* The kinds the FileViewer schedules, and all kinds.
ViewerKinds == {"search", "fileop"}
Kinds == ViewerKinds \cup {"dup"}

\* C1: for every worker instance, finished is emitted at most once and no
\* progress, status, result or error signal of the instance follows it: a
\* finished signal is the last signal of its instance.
C1_FinishedIsLast ==
    \A i \in Insts : \A k \in 1..Len(emitted[i]) :
        emitted[i][k].sig = "finished" => k = Len(emitted[i])

\* C1 witness: a search and a file operation have both returned, each
\* having emitted other signals and then finished.
C1_Witness ==
    \E i, j \in Created :
        /\ kind[i] = "search" /\ kind[j] = "fileop"
        /\ pc[i] = "done" /\ pc[j] = "done"
        /\ Len(emitted[i]) > 1 /\ Len(Signals(i, "finished")) = 1
        /\ Len(emitted[j]) > 1 /\ Len(Signals(j, "finished")) = 1

\* C2: every instance whose run() has returned has emitted finished exactly
\* once, whatever path run() took.
C2_FinishedOnEveryPath ==
    \A i \in Created : pc[i] = "done" => Len(Signals(i, "finished")) = 1

\* C3: when a new instance of a kind is created while run() of an instance
\* of that kind has begun and not returned, the running instance's
\* cancellation flag is set by the step that creates the new one.
C3_SupersedeCancels ==
    [][\A i \in Created :
          (nInst' = nInst + 1 /\ kind'[nInst'] = kind[i] /\ Running(i))
              => cancelled'[i]]_vars

\* A delivery of a signal that a search or file operation emitted after a
\* newer instance of its kind had been created.
Stale(e) ==
    /\ kind[e.inst] \in ViewerKinds
    /\ \E j \in (e.inst + 1)..e.at : kind[j] = kind[e.inst]

\* C4: the delivery of a result, progress or finished signal that a
\* superseded search or file operation emitted after it was superseded
\* changes neither the selection shown, nor the progress shown, nor the
\* viewer's current worker handles.
C4_StaleIgnored ==
    [][(queue # <<>> /\ queue' = Tail(queue) /\ Stale(Head(queue))
            /\ Head(queue).sig \in {"result", "progress", "finished"})
          => UNCHANGED <<selection, progress, current_search_worker,
                         current_file_worker>>]_vars

\* The instances of kind k whose run() has begun and not returned and whose
\* cancellation flag is not set.
RunningUncancelled(k) ==
    {i \in Created : kind[i] = k /\ Running(i) /\ ~cancelled[i]}

\* C5: at any time at most one instance of each kind is running with its
\* cancellation flag unset.
C5_OneUncancelledPerKind ==
    \A k \in Kinds : Cardinality(RunningUncancelled(k)) <= 1

\* The cancellation flags of the instances of kind k.
FlagsOf(flags, k) == [i \in {j \in Insts : kind[j] = k} |-> flags[i]]

\* C6: start_search leaves the file operation's handle and the flags of the
\* file operations unchanged, and start_file_operation leaves the search's
\* handle and the flags of the searches unchanged.
C6_NoCrossKindExclusion ==
    [][/\ (\E text \in cfg.queries : start_search(text))
            => /\ current_file_worker' = current_file_worker
               /\ FlagsOf(cancelled', "fileop") = FlagsOf(cancelled, "fileop")
       /\ (\E req \in cfg.fileops : start_file_operation(req))
            => /\ current_search_worker' = current_search_worker
               /\ FlagsOf(cancelled', "search") = FlagsOf(cancelled, "search")]_vars

\* C6 witness: a search and a file operation are both running, both with
\* the flag unset, both held by the viewer.
C6_Witness ==
    /\ current_search_worker # 0 /\ current_file_worker # 0
    /\ current_search_worker \in RunningUncancelled("search")
    /\ current_file_worker \in RunningUncancelled("fileop")

\* C7: a cancellation flag that is set stays set; cancel() applied twice
\* gives what it gives applied once; and the step that calls cancel() on
\* an instance does not wait for it: the instance's position in run() and
\* its emitted signals are the same after the step.
C7_CancelMonotonicIdempotent ==
    [][\A i \in Insts :
          /\ cancelled[i] => cancelled'[i]
          /\ cancel(cancel(cancelled, i), i) = cancel(cancelled, i)
          /\ (i \in Created /\ (cancelled'[i] # cancelled[i] \/ recancel'[i] # recancel[i]))
                => (pc'[i] = pc[i] /\ emitted'[i] = emitted[i])]_vars

\* C7 witness: cancel() has been called on a running instance whose flag
\* was already set, and the flag is set.
C7_Witness == \E i \in Created : recancel[i] /\ cancelled[i] /\ Running(i)

\* C8: every progress value emitted by an instance is in 0..100, and the
\* progress values of an instance never decrease.
C8_ProgressMonotone ==
    \A i \in Insts :
        LET p == Signals(i, "progress")
        IN  /\ \A k \in 1..Len(p) : p[k].val \in 0..100
            /\ \A k \in 1..(Len(p) - 1) : p[k].val <= p[k + 1].val

\* C8 witness: a search has emitted two progress values while walking and
\* the final one, and a different value each time.
C8_Witness ==
    \E i \in Created :
        /\ kind[i] = "search"
        /\ Len(Signals(i, "progress")) >= 3
        /\ Signals(i, "progress")[1].val < Signals(i, "progress")[2].val
        /\ Signals(i, "progress")[2].val < Signals(i, "progress")[3].val

\* C9: when run() of a file operation begins and the destination is not an
\* existing directory, that step emits one error signal and nothing else,
\* run() returns without entering the loop, and the filesystem is as it
\* was; an instance that has returned emits nothing more.
C9_InvalidDestination ==
    [][\A i \in Created :
          /\ (kind[i] = "fileop" /\ pc[i] = "queued" /\ pc'[i] # "queued"
                /\ ~IsDir(fs, args[i].destination_dir))
                => /\ Len(emitted'[i]) = 1 /\ emitted'[i][1].sig = "error"
                   /\ pc'[i] = "done" /\ loc'[i] = NoLoc
                   /\ fs' = fs
          /\ pc[i] = "done" => emitted'[i] = emitted[i]]_vars

\* C9 witness: a file operation whose destination is an existing file, not
\* a directory, has returned with one error signal.
C9_Witness ==
    \E i \in Created :
        /\ kind[i] = "fileop" /\ pc[i] = "done"
        /\ Exists(fs, args[i].destination_dir)
        /\ ~IsDir(fs, args[i].destination_dir)
        /\ Len(emitted[i]) = 1 /\ emitted[i][1].sig = "error"

\* C10: in every file operation that passed the pre-check, the items
\* processed so far are the first items of the list in list order, and
\* success_count + len(errors) is their number; the result of an operation
\* that was never cancelled counts all N items.
C10_EveryItemCounted ==
    \A i \in Created :
        (kind[i] = "fileop" /\ loc[i] # NoLoc) =>
            LET l == loc[i]
                N == Len(args[i].source_paths)
                res == Signals(i, "result")
            IN  /\ l.processed = [k \in 1..l.i |-> k - 1]
                /\ l.success_count + Len(l.errors) = Len(l.processed)
                /\ l.i <= N
                /\ \A k \in 1..Len(res) :
                      /\ res[k].val.success_count = l.success_count
                      /\ res[k].val.errors = l.errors
                      /\ ~cancelled[i] =>
                            res[k].val.success_count + Len(res[k].val.errors) = N

\* C10 witness: an operation on four items that was never cancelled has
\* emitted its result, with items that failed before an item that succeeded.
C10_Witness ==
    \E i \in Created :
        /\ kind[i] = "fileop" /\ ~cancelled[i] /\ pc[i] = "done"
        /\ Len(args[i].source_paths) = 4
        /\ Len(Signals(i, "result")) = 1
        /\ Len(loc[i].errors) >= 2
        /\ loc[i].success_count >= 1
        /\ loc[i].errors[1][1] = Basename(args[i].source_paths[1])

\* The file operations that have passed the pre-check, and for such an
\* operation the item the loop is at and the number of items.
FileOps == {i \in Created : kind[i] = "fileop" /\ loc[i] # NoLoc}
ItemOf(i) == args[i].source_paths[loc[i].i + 1]
ItemsOf(i) == Len(args[i].source_paths)

\* Instance i is at the head of the loop with an item to process.
AtItem(i) ==
    /\ i \in FileOps /\ pc[i] = "fo_loop"
    /\ ~LoopDone(loc[i], ItemsOf(i), cancelled[i])

\* C11: the pass of the loop that finds its source gone appends one
\* "Source no longer exists" error for that item, leaves success_count and
\* the filesystem as they were, and goes on to the next item; and the
\* result of an uncancelled operation whose only error is that one carries
\* success_count = N - 1.
C11_VanishedSource ==
    /\ [][\A i \in Insts :
             (AtItem(i) /\ ~Exists(fs, ItemOf(i)) /\ loc'[i] # loc[i])
                => /\ fs' = fs
                   /\ loc'[i].errors =
                          Append(loc[i].errors, <<Basename(ItemOf(i)), ErrVanished>>)
                   /\ loc'[i].success_count = loc[i].success_count
                   /\ loc'[i].i = loc[i].i + 1 /\ pc'[i] = "fo_loop"]_vars
    /\ [](\A i \in FileOps :
             (~cancelled[i] /\ Signals(i, "result") # <<>> /\ Len(loc[i].errors) = 1
                 /\ loc[i].errors[1][2] = ErrVanished)
                => /\ Signals(i, "result")[1].val.success_count = ItemsOf(i) - 1
                   /\ Signals(i, "result")[1].val.errors = loc[i].errors)

\* C11 witness: a copy of three items, the second of which had vanished,
\* has returned with two successes and the one error, for that item.
C11_Witness ==
    \E i \in FileOps :
        /\ pc[i] = "done" /\ ~cancelled[i] /\ ItemsOf(i) = 3
        /\ args[i].operation = "copy"
        /\ loc[i].success_count = 2
        /\ loc[i].errors = <<<<Basename(args[i].source_paths[2]), ErrVanished>>>>
        /\ Len(Signals(i, "result")) = 1

\* The directory destination_dir names is the directory source_path names
\* or lies inside it.
InsideSource(f, source_path, destination_dir) ==
    LET rs == Resolve(f, source_path)
        rd == Resolve(f, destination_dir)
    IN  /\ IsDirAt(f, rs) /\ IsDirAt(f, rd)
        /\ rd = rs \/ StartsWith(rd, IF rs = Root THEN rs ELSE rs \o <<Sep>>)

\* C12: the pass of the loop for an item whose destination directory is
\* the source directory or lies inside it appends the self-containment
\* error for the item, leaves success_count and the filesystem as they
\* were, and goes on to the next item.
C12_SelfContainmentRejected ==
    [][\A i \in Insts :
          (AtItem(i) /\ InsideSource(fs, ItemOf(i), args[i].destination_dir)
                /\ loc'[i] # loc[i])
             => /\ fs' = fs
                /\ loc'[i] = Failed(loc[i], ItemOf(i), ErrSelf(args[i].operation))
                /\ pc'[i] = "fo_loop"]_vars

\* name_copy_N+ext for a file name.
NumberedName(filename, n) ==
    Splitext(filename)[1] \o <<"_", "c", "o", "p", "y", "_">> \o Str(n)
        \o Splitext(filename)[2]

\* The name the claim gives an item in directory dir: its own when free,
\* else the numbered name with the smallest free number from 1.
FreeName(f, dir, filename) ==
    IF ~Exists(f, Join(dir, filename)) THEN Join(dir, filename)
    ELSE LET free(n) == ~Exists(f, Join(dir, NumberedName(filename, n)))
             N == CHOOSE n \in 1..(Cardinality(DOMAIN f) + 1) :
                      free(n) /\ \A m \in 1..(n - 1) : ~free(m)
         IN  Join(dir, NumberedName(filename, N))

\* C13: the destination path chosen for an item is the name FreeName gives
\* in the filesystem as it is when the choice is made.
C13_ConflictNames ==
    [][\A i \in Insts :
          (AtItem(i) /\ pc'[i] = "fo_copy")
             => loc'[i].destination_path =
                    FreeName(fs, args[i].destination_dir, Basename(ItemOf(i)))]_vars

\* C13 witness: /a.b and then /d/a.b were copied in one run into /d, which
\* held a.b: the copies are /d/a_copy_1.b and /d/a_copy_2.b.
C13_Witness ==
    \E i \in FileOps :
        /\ pc[i] = "done" /\ args[i] = CopyTwice /\ loc[i].success_count = 2
        /\ Join(P_d, NumberedName(Basename(P_a_b), 1)) \in DOMAIN fs
        /\ Join(P_d, NumberedName(Basename(P_a_b), 2)) \in DOMAIN fs
        /\ fs[Join(P_d, NumberedName(Basename(P_a_b), 1))].data = fs[P_a_b].data
        /\ fs[Join(P_d, NumberedName(Basename(P_a_b), 2))].data = fs[P_d_a_b].data
        /\ Join(P_d, NumberedName(Basename(P_a_b), 1)) =
               <<"/", "d", "/", "a", "_", "c", "o", "p", "y", "_", "1", ".", "b">>

\* The entries of the destination directory of instance i, but the item's
\* own source when that lies in the destination directory.
DestinationEntries(i) ==
    Children(fs, Resolve(fs, args[i].destination_dir)) \ {LResolve(fs, ItemOf(i))}

\* C14: when the shutil call of an item begins, no entry exists at the
\* destination path chosen for the item, and the call leaves every entry
\* of the destination directory as it was.
C14_NeverOverwrites ==
    [][\A i \in Insts :
          (i \in FileOps /\ pc[i] = "fo_copy" /\ pc'[i] # "fo_copy")
             => /\ LResolve(fs, loc[i].destination_path) = NoPath
                /\ \A q \in DestinationEntries(i) :
                       q \in DOMAIN fs' /\ fs'[q] = fs[q]]_vars

\* C15: a file operation has emitted one progress signal per item
\* processed, the signal for the item at 0-based index k - 1 carrying
\* floor(k * 100 / total).
C15_ProgressPerItem ==
    \A i \in FileOps :
        /\ Len(Signals(i, "progress")) = Len(loc[i].processed)
        /\ \A k \in 1..Len(Signals(i, "progress")) :
               Signals(i, "progress")[k].val = (k * 100) \div ItemsOf(i)

\* Instance i takes the step.
Stepped(i) == pc'[i] # pc[i] \/ loc'[i] # loc[i] \/ emitted'[i] # emitted[i]

\* C16: when a file operation comes to the check at the head of a pass
\* with its flag set and items left, that step processes no item and
\* changes nothing in the filesystem, and emits the result with the
\* success_count and errors accumulated so far; the next step of the run
\* emits finished, and the run returns, the filesystem still unchanged.
C16_CancelledBeforeItem ==
    /\ [][\A i \in Insts :
             (i \in FileOps /\ pc[i] = "fo_loop" /\ cancelled[i]
                   /\ loc[i].i < ItemsOf(i) /\ Stepped(i))
                => /\ fs' = fs /\ loc'[i] = loc[i]
                   /\ emitted'[i] = emitted[i] \o FileOpResult(loc[i])
                   /\ pc'[i] = "fin"]_vars
    /\ [][\A i \in Insts :
             (i \in FileOps /\ pc[i] = "fin" /\ Stepped(i))
                => /\ fs' = fs /\ loc'[i] = loc[i]
                   /\ emitted'[i] = Append(emitted[i], Ev("finished", 0))
                   /\ pc'[i] = "done"]_vars

\* C16 witness: an operation on four items was cancelled after its second
\* item and has returned: two items processed, a result carrying what they
\* gave, then finished.
C16_Witness ==
    \E i \in FileOps :
        /\ pc[i] = "done" /\ cancelled[i] /\ ItemsOf(i) = 4
        /\ loc[i].processed = <<0, 1>>
        /\ Len(Signals(i, "result")) = 1
        /\ Signals(i, "result")[1].val.success_count = loc[i].success_count
        /\ Signals(i, "result")[1].val.errors = loc[i].errors
        /\ loc[i].success_count + Len(loc[i].errors) = 2
        /\ emitted[i][Len(emitted[i])].sig = "finished"
        /\ emitted[i][Len(emitted[i]) - 1].sig = "result"

\* The duplicate scans created, and the scans in their hash stage: from
\* the first pass of the hash loops to the cancellation check after them.
Scans == {i \in Created : kind[i] = "dup"}
HashStage(i) == i \in Scans /\ pc[i] \in {"df_hash", "df_read"}

\* A result signal is among the signals instance i has emitted.
HasResult(i) == \E k \in 1..Len(emitted[i]) : emitted[i][k].sig = "result"

\* C17: a scan in its hash stage has emitted no result; once its flag is
\* set there, each of its steps emits no result and either stays in the
\* hash stage or leaves it for the final finished signal; and that last
\* step emits finished and nothing else.
C17_CancelMidHash ==
    /\ [](\A i \in Insts : HashStage(i) => ~HasResult(i))
    /\ [][\A i \in Insts :
             (HashStage(i) /\ cancelled[i] /\ Stepped(i))
                => /\ ~HasResult(i)'
                   /\ HashStage(i)' \/ pc'[i] = "fin"]_vars
    /\ [][\A i \in Insts :
             (i \in Scans /\ pc[i] = "fin" /\ Stepped(i))
                => /\ emitted'[i] = Append(emitted[i], Ev("finished", 0))
                   /\ pc'[i] = "done"]_vars

\* C17 witness: a scan was cancelled after it had hashed a file and before
\* it had hashed the last one, and has returned with finished as its last
\* signal and no result.
C17_Witness ==
    \E i \in Scans :
        /\ pc[i] = "done" /\ cancelled[i]
        /\ loc[i].processed_files >= 1 /\ loc[i].h <= Len(loc[i].todo)
        /\ ~HasResult(i)
        /\ emitted[i][Len(emitted[i])].sig = "finished"

\* The scan stage of a duplicate scan: the loop over the roots, up to the
\* cancellation check that follows it.
ScanStage(i) == i \in Scans /\ pc[i] \in {"df_root", "df_next", "df_body"}

\* The empty result: no groups and no wasted space.
EmptyResult == Ev("result", [groups |-> <<>>, total |-> 0])

\* C18 as stated: a scan that is cancelled in its scan stage, before any
\* hashing, and has found no potential duplicates emits the empty result
\* before it goes on to finished.
C18_EmptyResultOnEarlyCancel ==
    [][\A i \in Insts :
          (/\ ScanStage(i) /\ cancelled[i]
           /\ pc'[i] = "fin"
           /\ PotentialDuplicates(loc[i].size_groups) = 0)
             => \E k \in 1..Len(emitted'[i]) : emitted'[i][k] = EmptyResult]_vars

\* C18 amended: a scan whose flag is set in its scan stage emits no result,
\* whatever it has found, and leaves the stage only for the final finished
\* signal; the scan stage itself never emits a result; and a scan that
\* passes the check after the scan stage with its flag unset and no
\* potential duplicates emits the empty result and progress 100, and goes
\* on to finished.
C18_CancelDuringScan ==
    /\ [](\A i \in Insts : ScanStage(i) => ~HasResult(i))
    /\ [][\A i \in Insts :
             (ScanStage(i) /\ cancelled[i] /\ Stepped(i))
                => /\ ~HasResult(i)'
                   /\ ScanStage(i)' \/ pc'[i] = "fin"]_vars
    /\ [][\A i \in Insts :
             (/\ i \in Scans /\ pc[i] = "df_found" /\ Stepped(i)
              /\ PotentialDuplicates(loc[i].size_groups) = 0)
                => /\ pc'[i] = "fin"
                   /\ emitted'[i] = emitted[i]
                         \o <<Ev("status", <<"Found", loc[i].total_files>>),
                              EmptyResult, Ev("progress", 100)>>]_vars

\* C18 witness: a scan that found files but no potential duplicates was
\* cancelled in its scan stage and has returned with finished as its last
\* signal and no result.
C18_Witness ==
    \E i \in Scans :
        /\ pc[i] = "done" /\ cancelled[i]
        /\ loc[i].total_files >= 1
        /\ PotentialDuplicates(loc[i].size_groups) = 0
        /\ loc[i].todo = <<>> /\ loc[i].processed_files = 0
        /\ ~HasResult(i)
        /\ emitted[i][Len(emitted[i])].sig = "finished"

\* A scan with no potential duplicates that was not cancelled has emitted
\* the empty result and returned.
C18_WitnessEmptyResult ==
    \E i \in Scans :
        /\ pc[i] = "done" /\ ~cancelled[i]
        /\ PotentialDuplicates(loc[i].size_groups) = 0
        /\ \E k \in 1..Len(emitted[i]) : emitted[i][k] = EmptyResult

\* C19: in every stage of a duplicate scan, scan, hash and assemble, a scan
\* whose flag is set and that has not yet emitted its result emits no result
\* afterwards.
C19_CancelInEveryStage ==
    [][\A i \in Insts :
          (i \in Scans /\ cancelled[i] /\ ~HasResult(i)) => ~HasResult(i)']_vars

\* The root p is missing, is not a directory or cannot be listed.
UnavailableRoot(p) == ~Exists(fs, p) \/ ~IsDir(fs, p) \/ ~CanList(fs, p)

\* The searches created, and every root of scan i being unavailable.
Searches == {i \in Created : kind[i] = "search"}
AllUnavailable(i) ==
    \A k \in 1..Len(args[i].root_paths) : UnavailableRoot(args[i].root_paths[k])

\* The signals of instance i other than the status messages.
Reported(i) == SelectSeq(emitted[i], LAMBDA e : e.sig # "status")

\* C20: a search that begins on an unavailable root emits the empty result
\* and progress 100 and goes on to finished, which it emits next; a scan
\* that is not cancelled passes over an unavailable root to the next root
\* with what it has found unchanged; a scan that was not cancelled and has
\* returned with every root unavailable has reported result([], 0),
\* progress 100 and finished; and no search or scan emits an error.
C20_UnavailableRoot ==
    /\ [][\A i \in Insts :
             (/\ i \in Searches /\ pc[i] = "queued" /\ Stepped(i)
              /\ UnavailableRoot(Normpath(Abspath(args[i].root_path))))
                => /\ emitted'[i] = <<Ev("result", <<>>), Ev("progress", 100)>>
                   /\ pc'[i] = "fin"]_vars
    /\ [][\A i \in Insts :
             (i \in Searches /\ pc[i] = "fin" /\ Stepped(i))
                => /\ emitted'[i] = Append(emitted[i], Ev("finished", 0))
                   /\ pc'[i] = "done"]_vars
    /\ [][\A i \in Insts :
             (/\ i \in Scans /\ pc[i] = "df_root" /\ ~cancelled[i] /\ Stepped(i)
              /\ loc[i].r <= Len(args[i].root_paths)
              /\ UnavailableRoot(args[i].root_paths[loc[i].r]))
                => /\ pc'[i] = "df_root"
                   /\ loc'[i] = [loc[i] EXCEPT !.r = @ + 1]
                   /\ Reported(i)' = Reported(i)]_vars
    /\ [](\A i \in Insts :
             (i \in Scans /\ pc[i] = "done" /\ ~cancelled[i] /\ AllUnavailable(i))
                => Reported(i) = <<EmptyResult, Ev("progress", 100), Ev("finished", 0)>>)
    /\ [](\A i \in Insts :
             i \in Searches \cup Scans
                => \A k \in 1..Len(emitted[i]) : emitted[i][k].sig # "error")

\* C20 witness: a search of an unavailable root has returned after the
\* empty result, progress 100 and finished, and a scan of three roots, one
\* missing, one a file and one unlistable, has returned after the empty
\* result.
C20_Witness ==
    /\ \E i \in Searches :
          /\ pc[i] = "done"
          /\ UnavailableRoot(Normpath(Abspath(args[i].root_path)))
          /\ emitted[i] = <<Ev("result", <<>>), Ev("progress", 100), Ev("finished", 0)>>
    /\ \E i \in Scans :
          /\ pc[i] = "done" /\ AllUnavailable(i)
          /\ args[i].root_paths = Unavailable
          /\ \E k \in 1..Len(emitted[i]) : emitted[i][k] = EmptyResult

\* A scan has passed over three unavailable roots and found the file of
\* the fourth.
C20_WitnessContinues ==
    \E i \in Scans :
        /\ pc[i] = "done" /\ Len(args[i].root_paths) = 4
        /\ loc[i].total_files >= 1

\* The result signals of scan i, and the sum of wasted_space over the
\* first n groups of a result.
ResultsOf(i) == {emitted[i][k].val : k \in {j \in 1..Len(emitted[i]) : emitted[i][j].sig = "result"}}

RECURSIVE WastedUpTo(_, _)
WastedUpTo(groups, n) ==
    IF n = 0 THEN 0 ELSE WastedUpTo(groups, n - 1) + groups[n].wasted_space

\* C21: in every result a scan has emitted, every group has count equal to
\* the number of its files and wasted_space equal to size * (count - 1),
\* and the total emitted with the result is the sum of wasted_space over
\* the groups.
C21_GroupArithmetic ==
    \A i \in Scans : \A res \in ResultsOf(i) :
        /\ \A g \in 1..Len(res.groups) :
              /\ res.groups[g].count = Len(res.groups[g].files)
              /\ res.groups[g].wasted_space
                    = res.groups[g].size * (res.groups[g].count - 1)
        /\ res.total = WastedUpTo(res.groups, Len(res.groups))

\* C21 witness: a result with two groups, one of three files, and a total
\* that is not zero.
C21_Witness ==
    \E i \in Scans : \E res \in ResultsOf(i) :
        /\ Len(res.groups) = 2
        /\ res.groups[1].count = 3
        /\ res.total = 5

\* The members of the hash group of scan i with digest h, in the order in
\* which they were found.
Discovered(i, h) ==
    LET k == CHOOSE j \in 1..Len(loc[i].hash_groups) : loc[i].hash_groups[j].key = h
    IN  loc[i].hash_groups[k].paths

\* os.path.getmtime of every file in files succeeds.
MtimesReadable(files) == \A k \in 1..Len(files) : Exists(fs, files[k])

\* files is disc rearranged by ascending modification time, members of
\* equal modification time keeping their order in disc.
StablySorted(files, disc) ==
    /\ Len(files) = Len(disc)
    /\ \E perm \in [1..Len(files) -> 1..Len(files)] :
          /\ \A a, b \in 1..Len(files) : a # b => perm[a] # perm[b]
          /\ \A a \in 1..Len(files) : files[a] = disc[perm[a]]
          /\ \A a, b \in 1..Len(files) :
                a < b => \/ fs[Resolve(fs, files[a])].mtime < fs[Resolve(fs, files[b])].mtime
                         \/ /\ fs[Resolve(fs, files[a])].mtime = fs[Resolve(fs, files[b])].mtime
                            /\ perm[a] < perm[b]

\* C22: when a scan assembles its result, every group all of whose members
\* have a readable modification time has its files in ascending order of
\* modification time, members of equal time in the order in which they
\* were found; so its first file is not newer than any other.
C22_SortedByMtime ==
    [][\A i \in Insts :
          (i \in Scans /\ pc[i] = "df_assemble" /\ Stepped(i))
             => \A res \in ResultsOf(i)' : \A g \in 1..Len(res.groups) :
                   MtimesReadable(res.groups[g].files)
                      => /\ StablySorted(res.groups[g].files,
                                         Discovered(i, res.groups[g].hash))
                         /\ \A k \in 1..Len(res.groups[g].files) :
                               fs[Resolve(fs, res.groups[g].files[1])].mtime
                                  <= fs[Resolve(fs, res.groups[g].files[k])].mtime]_vars

\* C22 witness: /1, /2 and /3 were found in this order and are reported
\* as /2, /3, /1: the newest last, the two of equal age as found.
C22_Witness ==
    \E i \in Scans : \E res \in ResultsOf(i) :
        /\ Len(res.groups) >= 1
        /\ Discovered(i, res.groups[1].hash)
              = <<Root \o Str(1), Root \o Str(2), Root \o Str(3)>>
        /\ res.groups[1].files = <<Root \o Str(2), Root \o Str(3), Root \o Str(1)>>

\* C23: when a scan assembles its result, every hash group of two or more
\* members with a member whose modification time cannot be read is in the
\* result, with its members in the order in which they were found.
C23_UnreadableMtimeKeepsGroup ==
    [][\A i \in Insts :
          (i \in Scans /\ pc[i] = "df_assemble" /\ Stepped(i))
             => \A h \in 1..Len(loc[i].hash_groups) :
                   (/\ Len(loc[i].hash_groups[h].paths) >= 2
                    /\ ~MtimesReadable(loc[i].hash_groups[h].paths))
                      => \E res \in ResultsOf(i)' : \E g \in 1..Len(res.groups) :
                            /\ res.groups[g].hash = loc[i].hash_groups[h].key
                            /\ res.groups[g].files = loc[i].hash_groups[h].paths]_vars

\* A group with a vanished member that is not its first is reported in the
\* order in which its members were found.
C23_KeptUnsorted ==
    \E i \in Scans : \E res \in ResultsOf(i) :
        /\ Len(res.groups) >= 1
        /\ res.groups[1].files = <<Root \o Str(1), Root \o Str(2), Root \o Str(3)>>

\* The scan of instance i has left its scan stage for the count of the
\* potential duplicates, the hash stage or the assembly.
PastScan(i) == i \in Scans /\ pc[i] \in {"df_found", "df_hash", "df_read", "df_assemble"}

\* The files with a same-sized sibling: the members of the size groups of
\* scan i with two or more members.
WithSibling(i) ==
    UNION {{loc[i].size_groups[g].paths[k] : k \in 1..Len(loc[i].size_groups[g].paths)} :
             g \in {j \in 1..Len(loc[i].size_groups) : Len(loc[i].size_groups[j].paths) >= 2}}

\* The files scan i has passed to get_file_hash so far.
Hashed(i) == {loc[i].todo[k] : k \in 1..(loc[i].h - 1)}

\* C24: a scan that has left its scan stage has been through all its roots,
\* and none of its later steps changes the size groups; every file passed
\* to get_file_hash has a same-sized sibling; and when the hash loops have
\* ended without cancellation, every file with a same-sized sibling has
\* been passed to it and the number of files processed is the count of
\* potential duplicates.
C24_HashAfterScan ==
    /\ [](\A i \in Insts : PastScan(i) => loc[i].r > Len(args[i].root_paths))
    /\ [][\A i \in Insts :
             (PastScan(i) \/ (i \in Scans /\ pc[i] \in {"fin", "done"}))
                => loc'[i].size_groups = loc[i].size_groups]_vars
    /\ [](\A i \in Insts :
             (i \in Scans /\ pc[i] = "df_read")
                => loc[i].todo[loc[i].h] \in WithSibling(i))
    /\ [](\A i \in Insts : HashStage(i) => Hashed(i) \subseteq WithSibling(i))
    /\ [](\A i \in Insts :
             (i \in Scans /\ pc[i] = "df_assemble")
                => /\ Hashed(i) = WithSibling(i)
                   /\ loc[i].processed_files = PotentialDuplicates(loc[i].size_groups)
                   /\ loc[i].processed_files = loc[i].potential_duplicates)

\* C24 witness: the hash loops of a scan have ended; seven files in two
\* size groups were passed to get_file_hash and the only file of its size,
\* /8, was not.
C24_Witness ==
    \E i \in Scans :
        /\ pc[i] = "df_assemble"
        /\ loc[i].processed_files = 7
        /\ Len(loc[i].size_groups) = 3
        /\ Root \o Str(8) \notin Hashed(i)

\* The hashing of path p by scan i does not complete: the file cannot be
\* opened or read, or the flag is seen set after a chunk was read.
HashFails(i, p) ==
    \/ ~Exists(fs, p)
    \/ fs[Resolve(fs, p)].type # "file"
    \/ ~fs[Resolve(fs, p)].ok
    \/ cancelled[i] /\ fs[Resolve(fs, p)].size > 0

\* The paths in the hash groups of scan i.
Grouped(i) ==
    UNION {{loc[i].hash_groups[g].paths[k] : k \in 1..Len(loc[i].hash_groups[g].paths)} :
             g \in 1..Len(loc[i].hash_groups)}

\* C25: the step that hashes a file either fails and leaves the hash groups
\* as they are, or appends the file to the group of the digest of its
\* content and to no other; either way the scan goes on to the next file;
\* and every path in a hash group that still exists is a readable file
\* whose content has the digest of its group.
C25_FailedHashNotGrouped ==
    /\ [][\A i \in Insts :
             (i \in Scans /\ pc[i] = "df_read" /\ Stepped(i))
                => /\ pc'[i] = "df_hash"
                   /\ loc'[i].h = loc[i].h + 1
                   /\ loc'[i].processed_files = loc[i].processed_files + 1
                   /\ IF HashFails(i, loc[i].todo[loc[i].h])
                      THEN loc'[i].hash_groups = loc[i].hash_groups
                      ELSE loc'[i].hash_groups
                              = GroupAppend(loc[i].hash_groups,
                                            <<fs[Resolve(fs, loc[i].todo[loc[i].h])].data>>,
                                            loc[i].todo[loc[i].h])]_vars
    /\ [](\A i \in Insts :
             (i \in Scans /\ pc[i] \notin {"none", "queued"})
                => \A g \in 1..Len(loc[i].hash_groups) :
                      \A k \in 1..Len(loc[i].hash_groups[g].paths) :
                         LET q == loc[i].hash_groups[g].paths[k]
                         IN  Exists(fs, q)
                                => /\ fs[Resolve(fs, q)].type = "file"
                                   /\ fs[Resolve(fs, q)].ok
                                   /\ loc[i].hash_groups[g].key = <<fs[Resolve(fs, q)].data>>)

\* C25 witness: the unreadable /5 was passed to get_file_hash and is in no
\* hash group, and /6 and /7, hashed after it, are in one.
C25_Witness ==
    \E i \in Scans :
        /\ pc[i] = "df_assemble"
        /\ Root \o Str(5) \in Hashed(i) /\ Root \o Str(5) \notin Grouped(i)
        /\ {Root \o Str(6), Root \o Str(7)} \subseteq Grouped(i)

\* No other process has changed the filesystem since the program started.
FsUnchanged == cfg.volatile \subseteq DOMAIN fs

\* The walk of root reaches entry q: q is below root and every directory
\* from root down to q can be listed.
Reaches(root, q) ==
    /\ root \in DOMAIN fs /\ q \in Below(fs, root)
    /\ \A d \in DOMAIN fs :
          (d = root \/ (d \in Below(fs, root) /\ q \in Below(fs, d))) => CanListAt(fs, d)

\* The qualifying files of scan i: the readable regular files of at least
\* the minimum size that the walk of one of its roots reaches.
Qualifying(i) ==
    {q \in DOMAIN fs :
        /\ fs[q].type = "file" /\ fs[q].ok
        /\ fs[q].size >= args[i].min_file_size
        /\ \E r \in 1..Len(args[i].root_paths) : Reaches(args[i].root_paths[r], q)}

\* The files of group g of a result, as a set.
Members(res, g) == {res.groups[g].files[k] : k \in 1..Len(res.groups[g].files)}

\* C26: when a scan that was not cancelled assembles its result on a
\* filesystem that has not changed, the groups are exactly the classes of
\* qualifying files of equal content with two or more files: every group
\* has two or more files, all of the digest of the group; no two groups
\* have one digest; every content that two or more qualifying files share
\* has a group; and two qualifying files are in one group if and only if
\* they have the same content.
C26_GroupsAreContentClasses ==
    [][\A i \in Insts :
          (/\ i \in Scans /\ pc[i] = "df_assemble" /\ Stepped(i)
           /\ ~cancelled[i] /\ FsUnchanged)
             => \A res \in ResultsOf(i)' :
                   /\ \A g \in 1..Len(res.groups) :
                         /\ Cardinality(Members(res, g)) >= 2
                         /\ Members(res, g) \subseteq Qualifying(i)
                         /\ \A q \in Members(res, g) : res.groups[g].hash = <<fs[q].data>>
                   /\ \A g, h \in 1..Len(res.groups) :
                         g # h => res.groups[g].hash # res.groups[h].hash
                   /\ \A q1, q2 \in Qualifying(i) :
                         q1 # q2 =>
                            ((fs[q1].data = fs[q2].data)
                               <=> \E g \in 1..Len(res.groups) :
                                      {q1, q2} \subseteq Members(res, g))]_vars

\* The same for the scans of one root.
C26_OneRoot ==
    [][\A i \in Insts :
          (/\ i \in Scans /\ pc[i] = "df_assemble" /\ Stepped(i)
           /\ ~cancelled[i] /\ FsUnchanged /\ Len(args[i].root_paths) = 1)
             => \A res \in ResultsOf(i)' :
                   /\ \A g \in 1..Len(res.groups) :
                         /\ Cardinality(Members(res, g)) >= 2
                         /\ Members(res, g) \subseteq Qualifying(i)
                         /\ \A q \in Members(res, g) : res.groups[g].hash = <<fs[q].data>>
                   /\ \A g, h \in 1..Len(res.groups) :
                         g # h => res.groups[g].hash # res.groups[h].hash
                   /\ \A q1, q2 \in Qualifying(i) :
                         q1 # q2 =>
                            ((fs[q1].data = fs[q2].data)
                               <=> \E g \in 1..Len(res.groups) :
                                      {q1, q2} \subseteq Members(res, g))]_vars

\* The paths in the size groups of scan i.
SizeGrouped(i) ==
    UNION {{loc[i].size_groups[g].paths[k] : k \in 1..Len(loc[i].size_groups[g].paths)} :
             g \in 1..Len(loc[i].size_groups)}

\* C27: every size group of a scan is keyed by a size that is not below
\* the minimum, and every path in it that still exists is not a symbolic
\* link and has that size; and the files passed to get_file_hash, the
\* paths in the hash groups and the files of the emitted groups are all
\* paths of the size groups.
C27_SmallFilesAndLinksExcluded ==
    \A i \in Scans :
        pc[i] \notin {"none", "queued"} =>
            /\ \A g \in 1..Len(loc[i].size_groups) :
                  /\ loc[i].size_groups[g].key >= args[i].min_file_size
                  /\ \A k \in 1..Len(loc[i].size_groups[g].paths) :
                        LET q == loc[i].size_groups[g].paths[k]
                        IN  /\ ~IsLink(fs, q)
                            /\ Exists(fs, q) => fs[Resolve(fs, q)].size = loc[i].size_groups[g].key
            /\ {loc[i].todo[k] : k \in 1..Len(loc[i].todo)} \subseteq SizeGrouped(i)
            /\ Grouped(i) \subseteq SizeGrouped(i)
            /\ \A res \in ResultsOf(i) : \A g \in 1..Len(res.groups) :
                  Members(res, g) \subseteq SizeGrouped(i)

\* C27 witness: a scan with minimum size 2 has emitted a group while the
\* smaller files /6 and /7 and the link /l, all still there, are in no size
\* group.
C27_Witness ==
    \E i \in Scans : \E res \in ResultsOf(i) :
        /\ args[i].min_file_size = 2
        /\ Len(res.groups) = 1
        /\ {Root \o Str(6), Root \o Str(7), P_l} \subseteq DOMAIN fs
        /\ SizeGrouped(i) \cap {Root \o Str(6), Root \o Str(7), P_l} = {}

\* C28: no result of a search holds more than MatchLimit matches, and no
\* search counts more than DirLimit directories.
C28_SearchBounds ==
    \A i \in Searches :
        /\ \A k \in 1..Len(emitted[i]) :
              emitted[i][k].sig = "result" => Len(emitted[i][k].val) <= MatchLimit
        /\ pc[i] \in {"sr_next", "sr_body"} => loc[i].processed <= DirLimit

\* The position of the result signal among the signals of instance i, or
\* one past the last signal when there is none.
ResultAt(i) ==
    IF HasResult(i)
    THEN CHOOSE k \in 1..Len(emitted[i]) : emitted[i][k].sig = "result"
    ELSE Len(emitted[i]) + 1

\* The progress values search i emitted while walking: those before its
\* result.
WalkTicks(i) ==
    SelectSeq(SubSeq(emitted[i], 1, ResultAt(i) - 1), LAMBDA e : e.sig = "progress")

\* C29: the n-th progress signal a search emits while walking carries
\* min(5n * 2, 95), and while the walk goes on there is one such signal for
\* every five directories counted; nothing but progress is emitted before
\* the result; after the result the search emits progress 100 and then
\* finished and nothing else, and a search that has returned has emitted
\* all three.
C29_SearchProgress ==
    \A i \in Searches :
        /\ \A n \in 1..Len(WalkTicks(i)) :
              /\ WalkTicks(i)[n].val = (IF 5 * n * 2 < 95 THEN 5 * n * 2 ELSE 95)
              /\ WalkTicks(i)[n].val <= 95
        /\ Len(WalkTicks(i)) = ResultAt(i) - 1
        /\ pc[i] \in {"sr_next", "sr_body"}
              => /\ ~HasResult(i)
                 /\ Len(WalkTicks(i)) = loc[i].processed \div 5
        /\ HasResult(i)
              => /\ Len(emitted[i]) >= ResultAt(i) + 1
                 /\ emitted[i][ResultAt(i) + 1] = Ev("progress", 100)
                 /\ Len(emitted[i]) > ResultAt(i) + 1
                       => /\ Len(emitted[i]) = ResultAt(i) + 2
                          /\ emitted[i][ResultAt(i) + 2] = Ev("finished", 0)
        /\ pc[i] = "done" => HasResult(i) /\ Len(emitted[i]) = ResultAt(i) + 2

\* C29 witness: a search that was not cancelled has returned after ten
\* progress signals of the walk, the last of them 95, the result, progress
\* 100 and finished.
C29_Witness ==
    \E i \in Searches :
        /\ pc[i] = "done" /\ ~cancelled[i]
        /\ Len(WalkTicks(i)) = 10
        /\ WalkTicks(i)[9].val = 90 /\ WalkTicks(i)[10].val = 95
        /\ emitted[i][Len(emitted[i]) - 1] = Ev("progress", 100)

\* A cancelled search has returned after a progress signal of the walk,
\* the result, progress 100 and finished.
C29_WitnessCancelled ==
    \E i \in Searches :
        /\ pc[i] = "done" /\ cancelled[i]
        /\ Len(WalkTicks(i)) >= 1
        /\ emitted[i][Len(emitted[i]) - 1] = Ev("progress", 100)

\* The entries a complete search of instance i reports: the entries that
\* the walk of its root reaches, that exist, and whose name in lower case
\* contains the query in lower case.
Expected(i) ==
    {q \in DOMAIN fs :
        /\ Reaches(Normpath(Abspath(args[i].root_path)), q)
        /\ Exists(fs, q)
        /\ Contains(Lower(Basename(q)), Lower(args[i].query))}

\* C30: the result of a search that was not cancelled and reports no more
\* than MatchLimit matches (no tree here has DirLimit directories) lists
\* each expected entry once and nothing else; so a matching directory is
\* listed together with its matching descendants.
C30_SearchResultExact ==
    \A i \in Searches : \A k \in 1..Len(emitted[i]) :
        (/\ emitted[i][k].sig = "result" /\ ~cancelled[i]
         /\ Len(emitted[i][k].val) <= MatchLimit)
           => /\ {emitted[i][k].val[m] : m \in 1..Len(emitted[i][k].val)} = Expected(i)
              /\ Len(emitted[i][k].val) = Cardinality(Expected(i))

\* C30 witness: the search of the tree of names has reported the directory
\* /ab, its file /ab/ab, /AB, /xab and the link /abf, and nothing else.
C30_Witness ==
    \E i \in Searches : \E k \in 1..Len(emitted[i]) :
        /\ emitted[i][k].sig = "result" /\ ~cancelled[i]
        /\ {emitted[i][k].val[m] : m \in 1..Len(emitted[i][k].val)}
              = {P_ab, P_ab \o P_ab, <<Sep, "A", "B">>, P_x \o Q_ab, P_ab \o <<"f">>}
        /\ P_d_ab \in DOMAIN fs

\* The number of times path q occurs in the sequence of paths.
Occurrences(paths, q) == Cardinality({m \in 1..Len(paths) : paths[m] = q})

\* The entries below the root of search i whose name is the query of i
\* without regard to case.
NamedAsQuery(i) ==
    {q \in DOMAIN fs :
        /\ q \in Below(fs, Normpath(Abspath(args[i].root_path)))
        /\ Lower(Basename(q)) = args[i].query}

\* C31 as stated: the result of a search that was not cancelled lists once
\* every entry below its root whose name is the query, the query being one
\* the user types as the worker holds it.
C31_EveryExactMatchOnce ==
    \A i \in Searches : \A k \in 1..Len(emitted[i]) :
        (/\ emitted[i][k].sig = "result" /\ ~cancelled[i]
         /\ \E text \in cfg.queries : Strip(text) = args[i].query)
           => \A q \in NamedAsQuery(i) :
                 Basename(q) = args[i].query => Occurrences(emitted[i][k].val, q) = 1

\* C31: every search runs a query of at least MinQueryLen characters, and
\* the result of a search that was not cancelled and did not stop at a
\* limit lists exactly once every entry whose name is the query without
\* regard to case, provided the walk of the root reaches the entry and the
\* entry exists (it is not a dangling link).
C31_ExactMatchOnce ==
    \A i \in Searches :
        /\ Len(args[i].query) >= MinQueryLen
        /\ \A k \in 1..Len(emitted[i]) :
              (/\ emitted[i][k].sig = "result" /\ ~cancelled[i]
               /\ Len(emitted[i][k].val) <= MatchLimit)
                 => \A q \in NamedAsQuery(i) :
                       (/\ Reaches(Normpath(Abspath(args[i].root_path)), q)
                        /\ Exists(fs, q))
                          => Occurrences(emitted[i][k].val, q) = 1

\* C31 witness: a search for ab of the tree of names has reported /ab, the
\* file /ab/ab inside it and /AB once each, and not the file ab of the
\* unlistable directory /d.
C31_Witness ==
    \E i \in Searches : \E k \in 1..Len(emitted[i]) :
        /\ emitted[i][k].sig = "result" /\ ~cancelled[i]
        /\ NamedAsQuery(i) = {P_ab, P_ab \o P_ab, <<Sep, "A", "B">>, P_d_ab}
        /\ Occurrences(emitted[i][k].val, P_ab) = 1
        /\ Occurrences(emitted[i][k].val, P_ab \o P_ab) = 1
        /\ Occurrences(emitted[i][k].val, <<Sep, "A", "B">>) = 1
        /\ Occurrences(emitted[i][k].val, P_d_ab) = 0

\* The names the walk of search i listed in the directory it yielded last.
Listed(i) ==
    {loc[i].walk.dirs[k] : k \in 1..Len(loc[i].walk.dirs)}
        \cup {loc[i].walk.files[k] : k \in 1..Len(loc[i].walk.files)}

\* The paths search i records in this step.
Recorded(i) ==
    {loc'[i].matches[m] : m \in (Len(loc[i].matches) + 1)..Len(loc'[i].matches)}

\* C32: in the step in which a search goes through the names listed in a
\* directory, every path it records exists; of the listed names that
\* contain the query, those whose entry is gone by then are left out and
\* all the others are recorded; the matches recorded before are kept; no
\* error is signalled, and the search goes on to the next directory or to
\* its result, which is the matches recorded.
C32_StaleMatchDropped ==
    [][\A i \in Searches :
          (pc[i] = "sr_body" /\ pc'[i] # pc[i])
             => /\ \A q \in Recorded(i) : Exists(fs, q)
                /\ SubSeq(loc'[i].matches, 1, Len(loc[i].matches)) = loc[i].matches
                /\ (~cancelled[i] /\ Exists(fs, loc[i].walk.root))
                      => \A name \in Listed(i) :
                            Contains(Lower(name), args[i].query)
                               => (Join(loc[i].walk.root, name) \in Recorded(i)
                                     <=> Exists(fs, Join(loc[i].walk.root, name)))
                /\ \A k \in 1..Len(emitted'[i]) :
                      /\ emitted'[i][k].sig # "error"
                      /\ emitted'[i][k].sig = "result"
                            => emitted'[i][k].val = loc'[i].matches
                /\ pc'[i] \in {"sr_next", "fin"}
                /\ pc'[i] = "fin" => HasResult(i)']_vars

\* C32 witness: the walk listed the file ab in the root, the file was
\* removed before the search went through the names, and the search left
\* it out and went on to the next directory.
C32_Witness ==
    \E i \in Searches :
        /\ pc[i] = "sr_next" /\ ~cancelled[i]
        /\ loc[i].walk.root = Root /\ loc[i].processed = 1
        /\ Q_ab \in Listed(i)
        /\ P_ab \notin DOMAIN fs
        /\ loc[i].matches = <<>>

\* The search that left the removed /ab out has reported /d/ab, found in
\* the next directory.
C32_WitnessContinues ==
    \E i \in Searches : \E k \in 1..Len(emitted[i]) :
        /\ ~cancelled[i] /\ P_ab \notin DOMAIN fs
        /\ emitted[i][k] = Ev("result", <<P_d_ab>>)

\* The directories a top-down walk of the directories tops that follows no
\* symbolic link goes through, in order: each listable directory, then the
\* walks of its subdirectories that are not links, in listing order.
RECURSIVE TopDown(_, _)
TopDown(f, tops) ==
    IF tops = <<>> THEN <<>>
    ELSE LET top == Head(tops)
             subdirs == SelectSeq(InOrder(f, Children(f, top)),
                                  LAMBDA q : f[q].type = "dir")
         IN  (IF top \in DOMAIN f /\ f[top].type = "dir" /\ f[top].ok
              THEN <<top>> \o TopDown(f, subdirs) ELSE <<>>)
             \o TopDown(f, Tail(tops))

\* Instance i is inside a walk, and the directory the walk started from.
Walking(i) == pc[i] \in {"sr_next", "sr_body", "df_next", "df_body"}
WalkTop(i) ==
    IF kind[i] = "search" THEN Normpath(Abspath(args[i].root_path))
    ELSE args[i].root_paths[loc[i].r]

\* The position of x in the sequence, 0 when it is not in it.
IndexOf(seq, x) ==
    IF \E k \in 1..Len(seq) : seq[k] = x
    THEN CHOOSE k \in 1..Len(seq) : seq[k] = x ELSE 0

\* Path q is a symbolic link or lies below one.
ThroughLink(q) ==
    \E l \in DOMAIN fs :
        fs[l].type = "link" /\ (q = l \/ StartsWith(q, l \o <<Sep>>))

\* C33: the directories without repetition that a walk which follows no
\* link goes through are what the walk of a search or of a scan yields, one
\* after the other: the walk starts with the first, each next() yields the
\* directory after the one yielded last, and the walk is exhausted after
\* the last; so each directory is yielded at most once.  A yielded
\* directory is a real directory, neither a link nor below one, and so are
\* the entries listed in it.  And every walk comes to an end.
C33_WalkSkipsLinks ==
    /\ [][\A i \in Insts :
            (pc[i] \in {"sr_next", "df_next"} /\ pc'[i] # pc[i])
               => LET ref == TopDown(fs, <<WalkTop(i)>>)
                      at == IndexOf(ref, loc[i].walk.root)
                      root == loc'[i].walk.root
                  IN  /\ Cardinality({ref[k] : k \in 1..Len(ref)}) = Len(ref)
                      /\ loc[i].walk.root # NoPath => at > 0
                      /\ IF at = Len(ref)
                         THEN ~Walking(i)'
                         ELSE /\ Walking(i)'
                              /\ root = ref[at + 1]
                              /\ root \in DOMAIN fs /\ fs[root].type = "dir"
                              /\ ~ThroughLink(root)
                              /\ \A name \in Listed(i)' :
                                    /\ Join(root, name) \in DOMAIN fs
                                    /\ ~ThroughLink(Dirname(Join(root, name)))]_vars
    /\ \A i \in Insts : Walking(i) ~> ~Walking(i)

\* C33 witness: the walk of a search of the tree with link cycles is in
\* /d, where it has listed the link l to the root among the directories,
\* and the tree still has the links /l to /d and /d/l to the root.
C33_Witness ==
    \E i \in Searches :
        /\ pc[i] = "sr_body" /\ loc[i].walk.root = P_d
        /\ loc[i].walk.dirs = <<<<"l">>>>
        /\ loc[i].processed = 1
        /\ IsLink(fs, P_d \o P_l) /\ IsLink(fs, P_l)

\* The scan of the tree with link cycles has gone through its two
\* directories for the root / and found the files /ab and /d/ab, the links
\* left out, and is back at the loop over the roots.
C33_WitnessScan ==
    \E i \in Scans :
        /\ pc[i] = "df_root" /\ loc[i].r = 2
        /\ loc[i].walk.root = P_d
        /\ loc[i].size_groups = <<[key |-> 1, paths |-> <<P_ab, P_d_ab>>]>>

\* In this step instance i, whose cancellation flag is set, begins nothing
\* new: a search records no match and counts no directory, a scan adds no
\* file to its size groups and opens no further file to hash, and a file
\* operation goes to its result without a further item and without a
\* change of the filesystem.
BeginsNothing(i) ==
    /\ (pc[i] \in {"sr_next", "sr_body"} /\ pc'[i] \in {"sr_next", "sr_body"})
          => /\ loc'[i].matches = loc[i].matches
             /\ loc'[i].processed = loc[i].processed
    /\ pc[i] = "sr_body" => pc'[i] \in {"sr_body", "fin"}
    /\ (pc[i] \in {"df_root", "df_next", "df_body"}
           /\ pc'[i] \in {"df_root", "df_next", "df_body"})
          => loc'[i].size_groups = loc[i].size_groups
    /\ pc[i] = "df_root" => pc'[i] \in {"df_root", "fin"}
    /\ pc[i] = "df_hash" => pc'[i] \in {"df_hash", "fin"}
    /\ pc[i] = "fo_loop"
          => /\ pc'[i] \in {"fo_loop", "fin"}
             /\ loc'[i] = loc[i] /\ fs' = fs

\* Instance i has emitted finished.
HasFinished(i) == \E k \in 1..Len(emitted[i]) : emitted[i][k].sig = "finished"

\* C34: a step of an instance that is submitted, has not returned and has
\* its cancellation flag set begins nothing new, and when the instance
\* returns it has emitted finished.
C34_CancelledStopsAndFinishes ==
    [][\A i \in Insts :
          (cancelled[i] /\ Live(i) /\ Stepped(i))
             => /\ BeginsNothing(i)
                /\ pc'[i] = "done" => HasFinished(i)']_vars

\* Past the entry of run() the statement of C34 holds: a step of a
\* cancelled instance inside run() begins nothing new, and the instance
\* goes on to emit finished.
C34_PolledInsideRun ==
    /\ [][\A i \in Insts :
            (cancelled[i] /\ Running(i) /\ Stepped(i))
               => /\ BeginsNothing(i)
                  /\ pc'[i] = "done" => HasFinished(i)']_vars
    /\ \A i \in Insts : (cancelled[i] /\ Running(i)) ~> HasFinished(i)

\* The scheduler's current handle for kind k.
HandleOf(k) == IF k = "search" THEN current_search_worker ELSE current_file_worker

\* C35: while a search or a file operation is submitted, has not returned
\* and has its cancellation flag unset, the current handle of its kind
\* refers to it; and the delivery of a finished signal of another instance
\* leaves the handle of such an instance as it is.
C35_HandleRefersToRunning ==
    /\ [](\A i \in Insts :
            (kind[i] \in ViewerKinds /\ Live(i) /\ ~cancelled[i])
               => HandleOf(kind[i]) = i)
    /\ [][\A i \in Insts :
            (/\ kind[i] \in ViewerKinds /\ Live(i) /\ ~cancelled[i]
             /\ HandleOf(kind[i]) = i
             /\ queue # <<>> /\ queue' = Tail(queue)
             /\ Head(queue).sig = "finished" /\ Head(queue).inst # i)
               => HandleOf(kind[i])' = i]_vars

\* The number of times path q occurs among the files of the groups.
RECURSIVE TimesReported(_, _)
TimesReported(groups, q) ==
    IF groups = <<>> THEN 0
    ELSE Occurrences(Head(groups).files, q) + TimesReported(Tail(groups), q)

\* C36: in every result of a scan, whatever its roots, no path occurs more
\* than once among the files of all groups together.
C36_PathReportedOnce ==
    \A i \in Scans : \A k \in 1..Len(emitted[i]) :
        emitted[i][k].sig = "result"
           => \A q \in DOMAIN fs : TimesReported(emitted[i][k].val.groups, q) <= 1

\* The sizes under which scan i put path q into its size groups.
ScanSizes(i, q) ==
    {loc[i].size_groups[n].key :
        n \in {m \in 1..Len(loc[i].size_groups) :
                  \E k \in 1..Len(loc[i].size_groups[m].paths) :
                      loc[i].size_groups[m].paths[k] = q}}

\* C37: whatever other processes do to the files meanwhile, the size every
\* group of a result reports is the size under which the scan stage put
\* each of its members into the size groups, so that all members of a
\* group come from one size group.
C37_GroupKeepsScanSize ==
    \A i \in Scans : \A k \in 1..Len(emitted[i]) :
        emitted[i][k].sig = "result"
           => \A g \in 1..Len(emitted[i][k].val.groups) :
                 \A q \in Members(emitted[i][k].val, g) :
                     ScanSizes(i, q) = {emitted[i][k].val.groups[g].size}

\* C38: two file operations that write into one destination directory and
\* are both between the choice of a destination path and the write of
\* their item have chosen different paths.
C38_DistinctDestinations ==
    \A i, j \in FileOps :
        (/\ i # j /\ pc[i] = "fo_copy" /\ pc[j] = "fo_copy"
         /\ Normpath(args[i].destination_dir) = Normpath(args[j].destination_dir))
           => loc[i].destination_path # loc[j].destination_path

\* Path dst, as written, is path src or a proper descendant of it (both
\* normalized and absolute).
LexInside(src, dst) ==
    \/ dst = src
    \/ StartsWith(dst, IF src = Root THEN src ELSE src \o <<Sep>>)

\* The pass of the loop for the item of instance i reaches the guard and
\* ends there or at the shutil call.
GuardActs(i) == AtItem(i) /\ Exists(fs, ItemOf(i)) /\ Stepped(i)

\* C39: an item that reaches the self-containment guard is rejected with
\* the self-containment error exactly when the normalized destination
\* directory is the normalized source path or a proper descendant of it.
C39_RejectedExactlyWhenInside ==
    [][\A i \in Insts :
          GuardActs(i)
             => ((loc'[i] = Failed(loc[i], ItemOf(i), ErrSelf(args[i].operation)))
                   <=> LexInside(Normpath(ItemOf(i)), Normpath(args[i].destination_dir)))]_vars

\* C39, the cases named: an item with a source other than the drive is
\* rejected exactly when the destination is the source or below it; an
\* item sent to the sibling /dx or to its own parent goes on to the shutil
\* call, in the parent under the name with the suffix _copy_1.
C39_SiblingAndParentAccepted ==
    [][\A i \in Insts :
          (GuardActs(i) /\ Normpath(ItemOf(i)) # Root)
             => /\ (loc'[i] = Failed(loc[i], ItemOf(i), ErrSelf(args[i].operation)))
                      <=> LexInside(Normpath(ItemOf(i)), Normpath(args[i].destination_dir))
                /\ args[i].destination_dir = P_dx
                      => /\ pc'[i] = "fo_copy"
                         /\ loc'[i].destination_path = Join(P_dx, Basename(ItemOf(i)))
                /\ args[i].destination_dir = Dirname(ItemOf(i))
                      => /\ pc'[i] = "fo_copy"
                         /\ loc'[i].destination_path =
                                Join(Dirname(ItemOf(i)), NumberedName(Basename(ItemOf(i)), 1))]_vars

\* The drive sent into /dx has passed the guard and is at the shutil call.
C39_DrivePassesGuard ==
    \E i \in FileOps :
        /\ pc[i] = "fo_copy" /\ ItemOf(i) = Root /\ args[i].destination_dir = P_dx

\* The signals a step of instance i emits.
EmittedBy(i, evs) == emitted'[i] = emitted[i] \o evs

\* The hash stage of instance i counts one more candidate, which may have
\* been hashed or not, and emits what value(n) gives for the count n.
CountsCandidate(i, value(_)) ==
    /\ loc'[i].processed_files = loc[i].processed_files + 1
    /\ loc'[i].processed_files <= loc[i].potential_duplicates
    /\ EmittedBy(i, IF loc'[i].processed_files % 10 = 0
                    THEN <<Ev("progress", value(loc'[i].processed_files))>>
                    ELSE <<>>)

\* Instance i emits its result, progress 100 after it, and nothing else.
EndsWithResult(i) ==
    /\ Len(emitted'[i]) >= Len(emitted[i]) + 2
    /\ emitted'[i][Len(emitted'[i]) - 1].sig = "result"
    /\ emitted'[i][Len(emitted'[i])] = Ev("progress", 100)
    /\ \A k \in (Len(emitted[i]) + 1)..(Len(emitted'[i]) - 2) :
           emitted'[i][k].sig = "status"

\* The steps of the hash stage and after it: a candidate is counted with
\* the progress given, the heads of the loops emit nothing, and a run that
\* leaves the stage uncancelled emits its result and progress 100.
HashStageSteps(i, value(_)) ==
    /\ (pc[i] = "df_read" /\ Stepped(i)) => CountsCandidate(i, value)
    /\ (pc[i] = "df_hash" /\ Stepped(i)) => EmittedBy(i, <<>>)
    /\ (pc[i] = "df_assemble" /\ Stepped(i)) => EndsWithResult(i)
    /\ (pc[i] = "df_found" /\ pc'[i] = "fin") => EndsWithResult(i)

\* C40: in the hash stage a progress signal is emitted exactly when the
\* count of processed candidates reaches a multiple of 10, with the value
\* floor(processed * 100 / potential); a candidate whose hashing failed is
\* counted as well, the count never exceeds the number of potential
\* duplicates, and an uncancelled run emits progress 100 after its result.
C40_HashProgressFloor ==
    [][\A i \in Insts :
          HashStageSteps(i, LAMBDA n : (n * 100) \div loc[i].potential_duplicates)]_vars

\* C40 with the value the code computes: the floor, and one less where the
\* quotient processed / potential is 0.29, 0.57 or 0.58.
C40_HashProgressFloat ==
    [][\A i \in Insts :
          HashStageSteps(i, LAMBDA n :
              LET total == loc[i].potential_duplicates
                  q == (n * 100) \div total
              IN  IF 100 * n \in {29 * total, 57 * total, 58 * total}
                  THEN q - 1 ELSE q)]_vars

\* The 290th of 500 candidates was counted and progress 57 emitted for it.
C40_ProgressBelowFloor ==
    \E i \in Insts :
        /\ kind[i] = "dup" /\ loc[i] # NoLoc
        /\ loc[i].processed_files = 290 /\ loc[i].potential_duplicates = 500
        /\ emitted[i][Len(emitted[i])] = Ev("progress", 57)

====
